---- MODULE Spec2Model ----
(***************************************************************************)
(* DentistaPro: the appointment store behind StorageService, the patient   *)
(* view, the admin dashboard and the App view router, as one state         *)
(* machine.  Strings on which the code computes (trim, localeCompare,      *)
(* startsWith, toString) are sequences of character codes; documents are   *)
(* functions from field names to values, so a missing field is a missing   *)
(* key.                                                                    *)
(***************************************************************************)
EXTENDS Integers, Sequences, FiniteSets, TLC

\* ------------------------------------------------------------------ bounds
\* number of document ids the store can hand out
MaxDocs == 3
\* appointments already in the collection when a part of the program starts
MaxSeed == 1
\* largest value Date.now() takes
MaxClock == 2
\* writes one client may have in flight
MaxQueue == 2
\* messages an appointment's list may hold
MaxMsgs == 2

\* ----------------------------------------------------------------- strings
\* String.prototype.trim, space (32) being the whitespace character used
RECURSIVE TrimLeft(_)
TrimLeft(s) ==
  IF s # <<>> /\ Head(s) = 32 THEN TrimLeft(Tail(s)) ELSE s

RECURSIVE TrimRight(_)
TrimRight(s) ==
  IF s # <<>> /\ s[Len(s)] = 32 THEN TrimRight(SubSeq(s, 1, Len(s) - 1)) ELSE s

\* the bug of a guard that forgets .trim()
TrimNone(s) == s

Trim(s) == TrimRight(TrimLeft(s))

\* String.prototype.localeCompare on the characters the model uses: the sign
\* of the lexicographic comparison
RECURSIVE localeCompare(_, _)
localeCompare(a, b) ==
  IF a = <<>> /\ b = <<>> THEN 0
  ELSE IF a = <<>> THEN -1
  ELSE IF b = <<>> THEN 1
  ELSE IF Head(a) < Head(b) THEN -1
  ELSE IF Head(a) > Head(b) THEN 1
  ELSE localeCompare(Tail(a), Tail(b))

\* Number.prototype.toString: the decimal digits of n
RECURSIVE NumToString(_)
NumToString(n) ==
  IF n < 10 THEN <<48 + n>> ELSE NumToString(n \div 10) \o <<48 + (n % 10)>>

\* String.prototype.startsWith
StartsWith(s, p) == Len(s) >= Len(p) /\ SubSeq(s, 1, Len(p)) = p

\* ------------------------------------------------------------------- types
SCHEDULED == "PROGRAMADA"
COMPLETED == "COMPLETADA"
CANCELLED == "CANCELADA"

\* JavaScript undefined as the value of a view's appointment or of a fetch
Absent == [absent |-> TRUE]

\* the ids addDoc can assign: "1", "2", ...
DocId(i) == <<48 + i>>
DocIds == {DocId(i) : i \in 1..MaxDocs}

\* the two browsers that write to the store
Clients == {"admin", "patient"}

\* values a user can type
Names == {<<65, 110, 97>>}
Dates == {<<49>>, <<50>>, <<51>>}
Times == {<<49>>, <<49, 48>>, <<57>>}
Reasons == {<<>>, <<32>>, <<102, 108, 117>>}
Texts == {<<>>, <<32, 32>>, <<104, 105>>}

\* new Date().toISOString().split('T')[0] during the run
Today == <<50>>

\* ------------------------------------------------------------------- state
VARIABLES
  store,      \* the appointments collection: document id -> document data
  usedIds,    \* the ids addDoc has handed out so far
  clock,      \* Date.now()
  queue,      \* per client, the writes issued and not yet applied by the store
  pv,         \* the PatientView in the patient's browser
  ad,         \* the AdminDashboard in the admin's browser
  app,        \* the App component (view router)
  session,    \* the identity collaborator's current user
  createCalls,\* the createAppointment calls made: id assigned -> dto and time
  lastEvent   \* the handler or callback that ran last, with its inputs

vars ==
  <<store, usedIds, clock, queue, pv, ad, app, session, createCalls,
    lastEvent>>

\* ------------------------------------------------------- Firestore documents
COLLECTION_NAME == "appointments"

Exists(st, id) == id \in DOMAIN st

\* { id: doc.id, ...doc.data() }: a field of the data named id wins
MapDoc(id, data) == data @@ ("id" :> id)

\* a.date || '' and a.time || ''
OrEmpty(a, k) == IF k \in DOMAIN a THEN a[k] ELSE <<>>

\* the bug of a comparator that stops at the date
CompareDateOnly(a, b) == localeCompare(OrEmpty(a, "date"), OrEmpty(b, "date"))

\* the comparator of appointments.sort
CompareAppointments(a, b) ==
  LET dateCompare == localeCompare(OrEmpty(a, "date"), OrEmpty(b, "date"))
  IN  IF dateCompare # 0 THEN dateCompare
      ELSE localeCompare(OrEmpty(a, "time"), OrEmpty(b, "time"))

\* Array.prototype.sort with comparator cmp: stable, here by insertion
RECURSIVE InsertSorted(_, _)
InsertSorted(x, s) ==
  IF s = <<>> THEN <<x>>
  ELSE IF CompareAppointments(x, Head(s)) < 0 THEN <<x>> \o s
  ELSE <<Head(s)>> \o InsertSorted(x, Tail(s))

RECURSIVE SortAppointments(_)
SortAppointments(s) ==
  IF s = <<>> THEN <<>>
  ELSE InsertSorted(s[Len(s)], SortAppointments(SubSeq(s, 1, Len(s) - 1)))

\* snapshot.docs of the collection query: the documents in document-id order
RECURSIVE SnapshotDocsFrom(_, _)
SnapshotDocsFrom(st, i) ==
  IF i > MaxDocs THEN <<>>
  ELSE (IF Exists(st, DocId(i)) THEN <<MapDoc(DocId(i), st[DocId(i)])>> ELSE <<>>)
       \o SnapshotDocsFrom(st, i + 1)

SnapshotDocs(st) == SnapshotDocsFrom(st, 1)

\* docSnap.exists() ? { id: docSnap.id, ...docSnap.data() } : undefined
DocOrAbsent(st, id) == IF Exists(st, id) THEN MapDoc(id, st[id]) ELSE Absent

\* the bug of a record stored with an id field of its own making
NewAppointmentWithId(dto, now) ==
  [id |-> NumToString(now), status |-> SCHEDULED, createdAt |-> now,
   messages |-> <<>>] @@ dto

\* the bug of a record created as already completed
NewAppointmentCompleted(dto, now) ==
  [status |-> COMPLETED, createdAt |-> now, messages |-> <<>>] @@ dto

\* the bug of a record created without its message list
NewAppointmentNoMessages(dto, now) == [status |-> SCHEDULED, createdAt |-> now] @@ dto

\* the record createAppointment builds from its dto at time now
NewAppointment(dto, now) ==
  [status |-> SCHEDULED, createdAt |-> now, messages |-> <<>>] @@ dto

\* the record addMessage builds from its message at time now
NewMessage(message, now) == [id |-> NumToString(now)] @@ message

\* the bug of a new message put at the head of the list
ArrayUnionPrepend(list, m) ==
  IF \E i \in 1..Len(list) : list[i] = m THEN list ELSE <<m>> \o list

\* arrayUnion(m) on a list: appended unless an equal element is there already
ArrayUnion(list, m) ==
  IF \E i \in 1..Len(list) : list[i] = m THEN list ELSE Append(list, m)

\* A JavaScript object literal given to updateDoc is [data |-> the properties
\* that have a value, undef |-> the names of the properties that are
\* undefined].
Updates(data, undef) == [data |-> data, undef |-> undef]

\* the bug of a database set up to drop undefined properties silently
ValidUpdateIgnoringUndefined(updates) == TRUE

\* updateDoc validates its argument before anything is sent: firebase.ts gets
\* the database with getFirestore(app), so ignoreUndefinedProperties is off and
\* a property whose value is undefined is rejected as invalid data
ValidUpdate(updates) == updates.undef = {}


\* the outcomes of a write at the store
Outcomes == {"ok", "permission-denied", "unavailable"}

\* the result code of write w when the store's answer is outcome
WriteResult(st, w, outcome) ==
  IF outcome # "ok" THEN outcome
  ELSE IF w.op \in {"updateDoc", "arrayUnion"} /\ ~Exists(st, w.id) THEN "not-found"
  ELSE "ok"

\* the bug of an update written with setDoc without merge: the record is
\* replaced by the given fields
ApplyWriteReplace(st, w, outcome) ==
  IF outcome # "ok" \/ (w.op \in {"updateDoc", "arrayUnion"} /\ ~Exists(st, w.id))
  THEN st
  ELSE CASE w.op = "addDoc" -> (w.id :> w.data) @@ st
         [] w.op = "updateDoc" -> [st EXCEPT ![w.id] = w.data]
         [] w.op = "arrayUnion" ->
              [st EXCEPT ![w.id] =
                 ("messages" :> ArrayUnion(OrEmpty(@, "messages"), w.data)) @@ @]
         [] w.op = "deleteDoc" -> [i \in DOMAIN st \ {w.id} |-> st[i]]

\* the bug of a message appended with setDoc and merge: a missing document
\* is created with the message
ApplyWriteUnionCreates(st, w, outcome) ==
  IF outcome # "ok" \/ (w.op = "updateDoc" /\ ~Exists(st, w.id)) THEN st
  ELSE CASE w.op = "addDoc" -> (w.id :> w.data) @@ st
         [] w.op = "updateDoc" -> [st EXCEPT ![w.id] = w.data @@ @]
         [] w.op = "arrayUnion" ->
              IF Exists(st, w.id)
              THEN [st EXCEPT ![w.id] =
                      ("messages" :> ArrayUnion(OrEmpty(@, "messages"), w.data)) @@ @]
              ELSE (w.id :> [messages |-> <<w.data>>]) @@ st
         [] w.op = "deleteDoc" -> [i \in DOMAIN st \ {w.id} |-> st[i]]

\* the bug of an update written with setDoc and merge: a missing document is
\* created
ApplyWriteUpsert(st, w, outcome) ==
  IF outcome # "ok" THEN st
  ELSE CASE w.op = "addDoc" -> (w.id :> w.data) @@ st
         [] w.op = "updateDoc" ->
              (w.id :> (w.data @@ (IF Exists(st, w.id) THEN st[w.id] ELSE <<>>))) @@ st
         [] w.op = "arrayUnion" ->
              IF Exists(st, w.id)
              THEN [st EXCEPT ![w.id] =
                      ("messages" :> ArrayUnion(OrEmpty(@, "messages"), w.data)) @@ @]
              ELSE st
         [] w.op = "deleteDoc" -> [i \in DOMAIN st \ {w.id} |-> st[i]]

\* the collection after the store has answered write w with outcome
ApplyWrite(st, w, outcome) ==
  IF WriteResult(st, w, outcome) # "ok" THEN st
  ELSE CASE w.op = "addDoc" -> (w.id :> w.data) @@ st
         [] w.op = "updateDoc" -> [st EXCEPT ![w.id] = w.data @@ @]
         [] w.op = "arrayUnion" ->
              [st EXCEPT ![w.id] =
                 ("messages" :> ArrayUnion(OrEmpty(@, "messages"), w.data)) @@ @]
         [] w.op = "deleteDoc" -> [i \in DOMAIN st \ {w.id} |-> st[i]]

\* ------------------------------------------------------------ write issuing
\* the number of arrayUnion writes on document id still in flight
InFlightMessages(id) ==
  LET n(c) == Cardinality({i \in 1..Len(queue[c]) :
                 queue[c][i].op = "arrayUnion" /\ queue[c][i].id = id})
  IN  n("admin") + n("patient")

StoredMessages(id) ==
  IF Exists(store, id) THEN Len(OrEmpty(store[id], "messages")) ELSE 0

\* room left for one more message on document id
MessageRoom(id) == StoredMessages(id) + InFlightMessages(id) < MaxMsgs

\* the bug of a client that sends its newest write first
IssueFirst(c, w) == [queue EXCEPT ![c] = <<w>> \o @]

\* client c hands write w to the Firestore client
Issue(c, w) == [queue EXCEPT ![c] = Append(@, w)]

\* the bug of a catch block that rethrows
Rethrown(result) == result # "ok"

\* the try/catch of updateAppointment, addMessage, deleteAppointment and
\* getAppointmentById logs the error and returns: nothing reaches the caller
Swallowed(result) == FALSE

\* the bug of a catch that rethrows only what it has not announced itself
RaisedUnlessAnnounced(result) == result \notin {"ok", "permission-denied"}

\* the catch of createAppointment ends with throw error
Raised(result) == result # "ok"

\* ------------------------------------------------------------- PatientView
PvInit ==
  [mounted |-> FALSE, appointmentId |-> <<>>, listener |-> "none",
   delivered |-> FALSE, appointment |-> Absent, loading |-> TRUE,
   cancelReason |-> <<>>, showCancelModal |-> FALSE, messageText |-> <<>>,
   subscribed |-> {}]

\* the ids a share link can carry: those of the appointments there from the
\* start, one that names no appointment, and the empty one of the fragment
\* "#appt-"
LinkIds == {DocId(i) : i \in 1..(MaxSeed + 1)} \cup {<<>>}

\* onSnapshot(...) in an effect: the listeners registered and not yet
\* unsubscribed, one more for target unless the effect returned early for an
\* empty target
Subscribed(subs, target) == IF target # <<>> THEN subs \cup {target} ELSE subs

\* the bug of an effect that returns no cleanup
UnsubscribedNever(subs, target) == subs

\* the effect's cleanup, () => unsubscribe()
Unsubscribed(subs, target) == subs \ {target}

\* useEffect on [appointmentId]: no listener for an empty id
ListenerFor(id) == IF id # <<>> THEN "live" ELSE "none"

\* the view is past its loading and not-found returns
PvShown == pv.mounted /\ ~pv.loading /\ pv.appointment # Absent

isCancelled == pv.appointment.status = CANCELLED

\* PatientView is rendered with appointmentId = id
PvOpen(id) ==
  /\ ~pv.mounted
  /\ pv' = [PvInit EXCEPT !.mounted = TRUE, !.appointmentId = id,
                          !.listener = ListenerFor(id),
                          !.subscribed = Subscribed(pv.subscribed, id)]
  /\ lastEvent' = [op |-> "PvOpen"]
  /\ UNCHANGED <<store, usedIds, clock, queue, ad, app, session, createCalls>>

\* the appointmentId prop changes: the effect's cleanup unsubscribes and the
\* effect subscribes to the new id; the component's state is kept
PvChangeId(id) ==
  /\ pv.mounted /\ id # pv.appointmentId
  /\ pv' = [pv EXCEPT !.appointmentId = id, !.listener = ListenerFor(id),
                      !.delivered = FALSE,
                      !.subscribed =
                         Subscribed(Unsubscribed(@, pv.appointmentId), id)]
  /\ lastEvent' = [op |-> "PvChangeId"]
  /\ UNCHANGED <<store, usedIds, clock, queue, ad, app, session, createCalls>>

\* a write whose component is gone completes without touching any state
Orphaned(q) == [i \in 1..Len(q) |-> [q[i] EXCEPT !.handler = "none"]]

\* PatientView is unmounted: the effect's cleanup unsubscribes
PvClose ==
  /\ pv.mounted
  /\ pv' = [PvInit EXCEPT !.subscribed =
                            Unsubscribed(pv.subscribed, pv.appointmentId)]
  /\ queue' = [queue EXCEPT !["patient"] = Orphaned(@)]
  /\ lastEvent' = [op |-> "PvClose"]
  /\ UNCHANGED <<store, usedIds, clock, ad, app, session, createCalls>>

\* the bug of a view that reads its document once, with a fetch
PvSnapshotOnce ==
  /\ pv.listener = "live"
  /\ pv' = [pv EXCEPT !.appointment = DocOrAbsent(store, pv.appointmentId),
                      !.loading = FALSE, !.delivered = TRUE, !.listener = "dead"]
  /\ lastEvent' = [op |-> "PvSnapshot", exists |-> Exists(store, pv.appointmentId)]
  /\ UNCHANGED <<store, usedIds, clock, queue, ad, app, session, createCalls>>

\* the document listener's data callback: first snapshot, then every change
PvSnapshot ==
  /\ pv.listener = "live"
  /\ ~pv.delivered \/ DocOrAbsent(store, pv.appointmentId) # pv.appointment
  /\ pv' = [pv EXCEPT !.appointment = DocOrAbsent(store, pv.appointmentId),
                      !.loading = FALSE, !.delivered = TRUE]
  /\ lastEvent' = [op |-> "PvSnapshot", exists |-> Exists(store, pv.appointmentId)]
  /\ UNCHANGED <<store, usedIds, clock, queue, ad, app, session, createCalls>>

\* the document listener's error callback; the listener is then over
PvSnapshotError ==
  /\ pv.listener = "live"
  /\ pv' = [pv EXCEPT !.loading = FALSE, !.listener = "dead"]
  /\ lastEvent' = [op |-> "PvSnapshotError"]
  /\ UNCHANGED <<store, usedIds, clock, queue, ad, app, session, createCalls>>

\* onChange of the chat input, which is disabled while cancelled
PvTypeMessage(t) ==
  /\ PvShown /\ ~isCancelled /\ t # pv.messageText
  /\ pv' = [pv EXCEPT !.messageText = t]
  /\ lastEvent' = [op |-> "PvTypeMessage"]
  /\ UNCHANGED <<store, usedIds, clock, queue, ad, app, session, createCalls>>

\* the Cancelar Cita button, shown while not cancelled
PvOpenCancelModal ==
  /\ PvShown /\ ~isCancelled /\ ~pv.showCancelModal
  /\ pv' = [pv EXCEPT !.showCancelModal = TRUE]
  /\ lastEvent' = [op |-> "PvOpenCancelModal"]
  /\ UNCHANGED <<store, usedIds, clock, queue, ad, app, session, createCalls>>

\* the modal's Volver button
PvCloseCancelModal ==
  /\ PvShown /\ pv.showCancelModal
  /\ pv' = [pv EXCEPT !.showCancelModal = FALSE]
  /\ lastEvent' = [op |-> "PvCloseCancelModal"]
  /\ UNCHANGED <<store, usedIds, clock, queue, ad, app, session, createCalls>>

\* onChange of the modal's textarea
PvTypeReason(r) ==
  /\ PvShown /\ pv.showCancelModal /\ r # pv.cancelReason
  /\ pv' = [pv EXCEPT !.cancelReason = r]
  /\ lastEvent' = [op |-> "PvTypeReason"]
  /\ UNCHANGED <<store, usedIds, clock, queue, ad, app, session, createCalls>>

\* handleSendMessage up to its await
SendMessageIssued ==
  /\ pv.appointment # Absent
  /\ Trim(pv.messageText) # <<>>

\* the chat form is submitted; the send button is disabled for a blank text
\* and while cancelled
PvSendMessage ==
  /\ PvShown
  /\ LET go == ~isCancelled /\ SendMessageIssued
         m  == NewMessage([sender |-> "patient", text |-> pv.messageText,
                           timestamp |-> clock], clock)
     IN  /\ go => Len(queue["patient"]) < MaxQueue /\ MessageRoom(pv.appointment.id)
         /\ queue' = IF go
                     THEN Issue("patient", [op |-> "arrayUnion", id |-> pv.appointment.id,
                                            data |-> m, handler |-> "handleSendMessage"])
                     ELSE queue
         /\ lastEvent' = [op |-> "handleSendMessage", issued |-> go]
  /\ UNCHANGED <<store, usedIds, clock, pv, ad, app, session, createCalls>>

\* handleCancel up to its await
CancelIssued ==
  /\ pv.appointment # Absent
  /\ Trim(pv.cancelReason) # <<>>

\* the modal's Confirmar button is clicked; it is disabled for a blank reason
PvCancel ==
  /\ PvShown /\ pv.showCancelModal
  /\ LET go == CancelIssued
     IN  /\ go => Len(queue["patient"]) < MaxQueue
         /\ queue' = IF go
                     THEN Issue("patient",
                            [op |-> "updateDoc", id |-> pv.appointment.id,
                             data |-> [status |-> CANCELLED,
                                       cancellationReason |-> pv.cancelReason],
                             handler |-> "handleCancel"])
                     ELSE queue
         /\ lastEvent' = [op |-> "handleCancel", reason |-> pv.cancelReason,
                          issued |-> go]
  /\ UNCHANGED <<store, usedIds, clock, pv, ad, app, session, createCalls>>

\* the object handleResume gives to updateAppointment
ResumeUpdates == Updates([status |-> SCHEDULED], {"cancellationReason"})

\* handleResume with the user's answer to confirm(): updateDoc throws on
\* invalid data inside updateAppointment's try, so nothing is sent
HandleResume(answer) ==
  /\ pv.mounted /\ pv.appointment # Absent
  /\ LET called == answer
         sent   == called /\ ValidUpdate(ResumeUpdates)
         result == IF sent THEN "sent" ELSE "invalid-argument"
     IN  /\ sent => Len(queue["patient"]) < MaxQueue
         /\ queue' = IF sent
                     THEN Issue("patient",
                            [op |-> "updateDoc", id |-> pv.appointment.id,
                             data |-> ResumeUpdates.data, handler |-> "handleResume"])
                     ELSE queue
         /\ lastEvent' = [op |-> "handleResume", id |-> pv.appointment.id,
                          called |-> called, sent |-> sent,
                          raised |-> called /\ ~sent /\ Swallowed(result)]
  /\ UNCHANGED <<store, usedIds, clock, pv, ad, app, session, createCalls>>

\* the Reanudar Cita button, shown while cancelled
PvResume(answer) == PvShown /\ isCancelled /\ HandleResume(answer)

\* ---------------------------------------------------------- AdminDashboard
\* null and '' of editingId and isChatOpen, both falsy
NoId == <<>>

TREATMENT_OPTIONS == {<<76, 105, 109, 112>>, <<79, 114, 116, 111>>}
manual == <<109, 97, 110, 117, 97, 108>>

\* the form as handleOpenCreateModal and the reset of handleSubmit set it
EmptyForm ==
  [patientName |-> <<>>, patientEmail |-> <<>>, patientPhone |-> <<>>,
   date |-> <<>>, time |-> <<>>, treatmentType |-> <<76, 105, 109, 112>>,
   customTreatment |-> <<>>]

\* what the admin can have typed when submitting: the inputs marked required
\* (name, date, time) are not empty
Customs == {<<>>, <<32>>, <<120>>}
FormValues ==
  {[patientName |-> n, patientEmail |-> <<>>, patientPhone |-> <<>>,
    date |-> d, time |-> t, treatmentType |-> tt, customTreatment |-> c] :
     n \in Names, d \in Dates, t \in Times,
     tt \in {<<76, 105, 109, 112>>, manual}, c \in Customs}

SearchTerms == {<<>>, <<32>>, <<97>>}

\* String.prototype.toLowerCase
ToLower(s) == [i \in 1..Len(s) |-> IF s[i] \in 65..90 THEN s[i] + 32 ELSE s[i]]

\* String.prototype.includes
Includes(s, t) == \E i \in 0..(Len(s) - Len(t)) : SubSeq(s, i + 1, i + Len(t)) = t

\* the relational operators on strings: a < b by code units
RECURSIVE StrLess(_, _)
StrLess(a, b) ==
  IF b = <<>> THEN FALSE
  ELSE IF a = <<>> THEN TRUE
  ELSE IF Head(a) # Head(b) THEN Head(a) < Head(b)
  ELSE StrLess(Tail(a), Tail(b))

\* a.date >= today; a comparison with undefined is false
DateGE(a, today) == "date" \in DOMAIN a /\ ~StrLess(a.date, today)
DateLT(a, today) == "date" \in DOMAIN a /\ StrLess(a.date, today)

\* the bug of an agenda that forgets to exclude the cancelled
InAgendaKeepCancelled(a) == DateGE(a, Today) /\ a.status # COMPLETED

InAgenda(a) ==
  DateGE(a, Today) /\ a.status # COMPLETED /\ a.status # CANCELLED

InHistory(a) ==
  DateLT(a, Today) \/ a.status = COMPLETED \/ a.status = CANCELLED

\* appt?.field?.toLowerCase().includes(term)
FieldIncludes(a, k, term, lower) ==
  k \in DOMAIN a /\ Includes(IF lower THEN ToLower(a[k]) ELSE a[k], term)

MatchesSearch(a, lowerTerm) ==
  \/ FieldIncludes(a, "patientName", lowerTerm, TRUE)
  \/ FieldIncludes(a, "patientEmail", lowerTerm, TRUE)
  \/ FieldIncludes(a, "patientPhone", lowerTerm, FALSE)

\* the base list of the filter effect for a view
BaseList(appointments, view) ==
  CASE view = "agenda" -> SelectSeq(appointments, InAgenda)
    [] view = "history" -> SelectSeq(appointments, InHistory)
    [] view = "dashboard" -> <<>>

\* the filter effect: what setFilteredAppointments receives
FilterEffect(appointments, view, searchTerm) ==
  LET baseList == BaseList(appointments, view)
      matches(a) == MatchesSearch(a, ToLower(searchTerm))
  IN  IF Trim(searchTerm) = <<>> THEN baseList ELSE SelectSeq(baseList, matches)

\* the effect runs after every render that changed one of its dependencies
Refiltered(a) ==
  [a EXCEPT !.filteredAppointments =
     FilterEffect(a.appointments, a.currentView, a.searchTerm)]

AdInit ==
  [mounted |-> FALSE, listener |-> "none", delivered |-> FALSE,
   appointments |-> <<>>, filteredAppointments |-> <<>>, searchTerm |-> <<>>,
   currentView |-> "agenda", isModalOpen |-> FALSE, editingId |-> NoId,
   formData |-> EmptyForm, isChatOpen |-> NoId, chatMessage |-> <<>>,
   loading |-> TRUE, error |-> FALSE, subscribed |-> {}]

\* no modal covers the page
AdPage == ad.mounted /\ ~ad.isModalOpen /\ ad.isChatOpen = NoId

\* the cards of filteredAppointments are on the page
AdListShown == AdPage /\ ad.currentView # "dashboard" /\ ~ad.loading

\* AdminDashboard is rendered: the effect subscribes to the collection
AdOpen ==
  /\ ~ad.mounted
  /\ ad' = [AdInit EXCEPT !.mounted = TRUE, !.listener = "live",
                          !.subscribed = ad.subscribed \cup {COLLECTION_NAME}]
  /\ lastEvent' = [op |-> "AdOpen"]
  /\ UNCHANGED <<store, usedIds, clock, queue, pv, app, session, createCalls>>

\* AdminDashboard is unmounted: the effect's cleanup unsubscribes
AdClose ==
  /\ ad.mounted
  /\ ad' = [AdInit EXCEPT !.subscribed =
                            Unsubscribed(ad.subscribed, COLLECTION_NAME)]
  /\ queue' = [queue EXCEPT !["admin"] = Orphaned(@)]
  /\ lastEvent' = [op |-> "AdClose"]
  /\ UNCHANGED <<store, usedIds, clock, pv, app, session, createCalls>>

\* subscribeToAppointments' snapshot callback: map, sort, callback(appointments)
AdSnapshot ==
  /\ ad.listener = "live"
  /\ LET appointments == SortAppointments(SnapshotDocs(store))
     IN  /\ ~ad.delivered \/ appointments # ad.appointments
         /\ ad' = Refiltered([ad EXCEPT !.appointments = appointments,
                                        !.loading = FALSE, !.error = FALSE,
                                        !.delivered = TRUE])
  /\ lastEvent' = [op |-> "AdSnapshot", docs |-> SnapshotDocs(store)]
  /\ UNCHANGED <<store, usedIds, clock, queue, pv, app, session, createCalls>>

\* the bug of a subscription that is started again after its failure
AdSnapshotErrorResubscribes ==
  /\ ad.listener = "live"
  /\ ad' = [ad EXCEPT !.loading = FALSE, !.error = TRUE, !.delivered = FALSE]
  /\ lastEvent' = [op |-> "AdSnapshotError"]
  /\ UNCHANGED <<store, usedIds, clock, queue, pv, app, session, createCalls>>

\* subscribeToAppointments' error callback: onError(error); the listener is over
AdSnapshotError ==
  /\ ad.listener = "live"
  /\ ad' = [ad EXCEPT !.loading = FALSE, !.error = TRUE, !.listener = "dead"]
  /\ lastEvent' = [op |-> "AdSnapshotError"]
  /\ UNCHANGED <<store, usedIds, clock, queue, pv, app, session, createCalls>>

\* the sidebar buttons
AdSetView(v) ==
  /\ AdPage /\ v # ad.currentView
  /\ ad' = Refiltered([ad EXCEPT !.currentView = v])
  /\ lastEvent' = [op |-> "AdSetView"]
  /\ UNCHANGED <<store, usedIds, clock, queue, pv, app, session, createCalls>>

\* onChange of the search input of the agenda and history headers
AdSearch(term) ==
  /\ AdPage /\ ad.currentView # "dashboard" /\ term # ad.searchTerm
  /\ ad' = Refiltered([ad EXCEPT !.searchTerm = term])
  /\ lastEvent' = [op |-> "AdSearch"]
  /\ UNCHANGED <<store, usedIds, clock, queue, pv, app, session, createCalls>>

\* handleOpenCreateModal, from the Nueva Cita button of the agenda
AdOpenCreateModal ==
  /\ AdPage /\ ad.currentView = "agenda"
  /\ ad' = [ad EXCEPT !.editingId = NoId, !.formData = EmptyForm,
                      !.isModalOpen = TRUE]
  /\ lastEvent' = [op |-> "handleOpenCreateModal"]
  /\ UNCHANGED <<store, usedIds, clock, queue, pv, app, session, createCalls>>

\* the bug of an edit form that knows the preset treatments only
EditFormPresetOnly(appt) ==
  LET isStandardTreatment == appt.treatmentType \in TREATMENT_OPTIONS
  IN  [patientName |-> appt.patientName,
       patientEmail |-> OrEmpty(appt, "patientEmail"),
       patientPhone |-> OrEmpty(appt, "patientPhone"),
       date |-> appt.date, time |-> appt.time,
       treatmentType |-> IF isStandardTreatment THEN appt.treatmentType
                         ELSE <<76, 105, 109, 112>>,
       customTreatment |-> <<>>]

\* the form handleEditClick fills from an appointment
EditForm(appt) ==
  LET isStandardTreatment == appt.treatmentType \in TREATMENT_OPTIONS
  IN  [patientName |-> appt.patientName,
       patientEmail |-> OrEmpty(appt, "patientEmail"),
       patientPhone |-> OrEmpty(appt, "patientPhone"),
       date |-> appt.date, time |-> appt.time,
       treatmentType |-> IF isStandardTreatment THEN appt.treatmentType ELSE manual,
       customTreatment |-> IF isStandardTreatment THEN <<>> ELSE appt.treatmentType]

\* handleEditClick, from the Editar button of a card that is not cancelled
AdEditClick(i) ==
  /\ AdListShown /\ i \in 1..Len(ad.filteredAppointments)
  /\ LET appt == ad.filteredAppointments[i]
     IN  /\ appt.status # CANCELLED
         /\ ad' = [ad EXCEPT !.formData = EditForm(appt), !.editingId = appt.id,
                             !.isModalOpen = TRUE]
  /\ lastEvent' = [op |-> "handleEditClick"]
  /\ UNCHANGED <<store, usedIds, clock, queue, pv, app, session, createCalls>>

\* onChange of the form's inputs
AdSetForm(fd) ==
  /\ ad.mounted /\ ad.isModalOpen /\ fd # ad.formData
  /\ ad' = [ad EXCEPT !.formData = fd]
  /\ lastEvent' = [op |-> "AdSetForm"]
  /\ UNCHANGED <<store, usedIds, clock, queue, pv, app, session, createCalls>>

\* the modal's X button
AdCloseModal ==
  /\ ad.mounted /\ ad.isModalOpen
  /\ ad' = [ad EXCEPT !.isModalOpen = FALSE]
  /\ lastEvent' = [op |-> "AdCloseModal"]
  /\ UNCHANGED <<store, usedIds, clock, queue, pv, app, session, createCalls>>

\* the bug of a treatment check made on the select's value alone
FinalTreatmentOfSelect(fd) == fd.treatmentType

\* handleSubmit's finalTreatment
FinalTreatment(fd) ==
  IF fd.treatmentType = manual THEN fd.customTreatment ELSE fd.treatmentType

\* the bug of a payload that carries a creation time of its own
PayloadStamped(fd) ==
  [patientName |-> fd.patientName, patientEmail |-> fd.patientEmail,
   patientPhone |-> fd.patientPhone, date |-> fd.date, time |-> fd.time,
   treatmentType |-> FinalTreatment(fd), createdAt |-> 0]

\* handleSubmit's payload
Payload(fd) ==
  [patientName |-> fd.patientName, patientEmail |-> fd.patientEmail,
   patientPhone |-> fd.patientPhone, date |-> fd.date, time |-> fd.time,
   treatmentType |-> FinalTreatment(fd)]

\* if (!finalTreatment.trim()) return alert(...): the prompt shown
TreatmentPrompt(go) ==
  IF go THEN <<>> ELSE <<"Por favor especifica el tratamiento.">>

\* the browser submits the form only with its required inputs filled
FormComplete(fd) == fd.patientName # <<>> /\ fd.date # <<>> /\ fd.time # <<>>

\* createAppointment(dto) up to its await: the record is built and handed to
\* addDoc, which picks the new document's id
CreateIssued(dto, handler) ==
  \E id \in DocIds \ usedIds :
    /\ queue' = Issue("admin", [op |-> "addDoc", id |-> id,
                                data |-> NewAppointment(dto, clock),
                                handler |-> handler])
    /\ usedIds' = usedIds \cup {id}
    /\ createCalls' = (id :> [dto |-> dto, at |-> clock]) @@ createCalls

\* handleSubmit up to its await: the treatment prompt, then update or create
AdSubmit ==
  /\ ad.mounted /\ ad.isModalOpen /\ FormComplete(ad.formData)
  /\ LET fd == ad.formData
         go == Trim(FinalTreatment(fd)) # <<>>
     IN  /\ go => Len(queue["admin"]) < MaxQueue
         /\ IF ~go
            THEN UNCHANGED <<queue, usedIds, createCalls>>
            ELSE IF ad.editingId # NoId
            THEN /\ queue' = Issue("admin",
                       [op |-> "updateDoc", id |-> ad.editingId,
                        data |-> Payload(fd), handler |-> "handleSubmit"])
                 /\ UNCHANGED <<usedIds, createCalls>>
            ELSE CreateIssued(Payload(fd), "handleSubmit")
         /\ lastEvent' = [op |-> "handleSubmit", issued |-> go,
                          editing |-> ad.editingId # NoId,
                          alerts |-> TreatmentPrompt(go)]
  /\ UNCHANGED <<store, clock, pv, ad, app, session>>

\* handleCreate of the earlier AdminDashboard (part_001) up to its await: the
\* whole form goes to createAppointment, customTreatment included
HandleCreate ==
  /\ ad.mounted /\ ad.isModalOpen /\ FormComplete(ad.formData)
  /\ LET fd == ad.formData
         go == Trim(FinalTreatment(fd)) # <<>>
     IN  /\ go => Len(queue["admin"]) < MaxQueue
         /\ IF go
            THEN CreateIssued([fd EXCEPT !.treatmentType = FinalTreatment(fd)],
                              "handleCreate")
            ELSE UNCHANGED <<queue, usedIds, createCalls>>
         /\ lastEvent' = [op |-> "handleCreate", issued |-> go,
                          alerts |-> TreatmentPrompt(go)]
  /\ UNCHANGED <<store, clock, pv, ad, app, session>>

\* handleDelete with the user's answer to confirm()
AdDelete(i, answer) ==
  /\ AdListShown /\ i \in 1..Len(ad.filteredAppointments)
  /\ answer => Len(queue["admin"]) < MaxQueue
  /\ queue' = IF answer
              THEN Issue("admin", [op |-> "deleteDoc", id |-> ad.filteredAppointments[i].id,
                                   data |-> <<>>, handler |-> "handleDelete"])
              ELSE queue
  /\ lastEvent' = [op |-> "handleDelete", issued |-> answer]
  /\ UNCHANGED <<store, usedIds, clock, pv, ad, app, session, createCalls>>

\* the Chat button of a card that is not cancelled
AdOpenChat(i) ==
  /\ AdListShown /\ i \in 1..Len(ad.filteredAppointments)
  /\ ad.filteredAppointments[i].status # CANCELLED
  /\ ad' = [ad EXCEPT !.isChatOpen = ad.filteredAppointments[i].id]
  /\ lastEvent' = [op |-> "AdOpenChat"]
  /\ UNCHANGED <<store, usedIds, clock, queue, pv, app, session, createCalls>>

\* the chat modal's X button
AdCloseChat ==
  /\ ad.mounted /\ ad.isChatOpen # NoId
  /\ ad' = [ad EXCEPT !.isChatOpen = NoId]
  /\ lastEvent' = [op |-> "AdCloseChat"]
  /\ UNCHANGED <<store, usedIds, clock, queue, pv, app, session, createCalls>>

\* onChange of the chat modal's input
AdTypeChat(t) ==
  /\ ad.mounted /\ ad.isChatOpen # NoId /\ t # ad.chatMessage
  /\ ad' = [ad EXCEPT !.chatMessage = t]
  /\ lastEvent' = [op |-> "AdTypeChat"]
  /\ UNCHANGED <<store, usedIds, clock, queue, pv, app, session, createCalls>>

\* the chat form is submitted: handleSendChat(isChatOpen) up to its await
AdSendChat ==
  /\ ad.mounted /\ ad.isChatOpen # NoId
  /\ LET go == Trim(ad.chatMessage) # <<>>
         m  == NewMessage([sender |-> "doctor", text |-> ad.chatMessage,
                           timestamp |-> clock], clock)
     IN  /\ go => Len(queue["admin"]) < MaxQueue /\ MessageRoom(ad.isChatOpen)
         /\ queue' = IF go
                     THEN Issue("admin", [op |-> "arrayUnion", id |-> ad.isChatOpen,
                                          data |-> m, handler |-> "handleSendChat"])
                     ELSE queue
         /\ lastEvent' = [op |-> "handleSendChat", issued |-> go]
  /\ UNCHANGED <<store, usedIds, clock, pv, ad, app, session, createCalls>>

\* --------------------------------------------------------------------- App
ADMIN_EMAIL ==
  <<103, 101, 114, 105, 116, 111, 46, 100, 105, 115, 101, 110, 111, 64,
    103, 109, 97, 105, 108, 46, 99, 111, 109>>

\* the literal '#appt-'
ApptPrefix == <<35, 97, 112, 112, 116, 45>>

\* the addresses that sign in: the admin's, the admin's with a capital G,
\* and somebody else's
Emails == {ADMIN_EMAIL, <<71>> \o Tail(ADMIN_EMAIL), <<120, 64, 121>>}

\* window.location.hash: nothing, a share link of each id, the bare prefix,
\* and a fragment that only contains the prefix
Hashes ==
  {<<>>, ApptPrefix, <<35, 120>>, <<35, 120>> \o ApptPrefix \o DocId(1)}
    \cup {ApptPrefix \o id : id \in DocIds}

\* a signed-in user, and null
User(email) == [email |-> email]
NoUser == [absent |-> TRUE]

\* String.prototype.replace(pattern, replacement) for a string pattern: the
\* first occurrence only
RECURSIVE ReplaceFirst(_, _, _)
ReplaceFirst(s, p, r) ==
  IF StartsWith(s, p) THEN r \o SubSeq(s, Len(p) + 1, Len(s))
  ELSE IF s = <<>> THEN s
  ELSE <<Head(s)>> \o ReplaceFirst(Tail(s), p, r)

\* the bug of a router that looks for the prefix anywhere in the fragment
isPatientViewAnywhere ==
  \E i \in 0..Len(app.currentHash) :
     StartsWith(SubSeq(app.currentHash, i + 1, Len(app.currentHash)), ApptPrefix)

isPatientView == StartsWith(app.currentHash, ApptPrefix)

appointmentId ==
  IF isPatientView THEN ReplaceFirst(app.currentHash, ApptPrefix, <<>>) ELSE <<>>

\* the bug of comparing addresses without regard to case
AuthorizedAnyCase(user) ==
  user # NoUser /\ ToLower(user.email) = ToLower(ADMIN_EMAIL)

\* currentUser.email === ADMIN_EMAIL
Authorized(user) == user # NoUser /\ user.email = ADMIN_EMAIL

\* the bug of a router that serves share links before the session is known
ViewPatientFirst ==
  IF isPatientView THEN "patient"
  ELSE IF app.loadingAuth THEN "loading"
  ELSE IF app.user = NoUser THEN "login"
  ELSE IF ~app.isAuthorized THEN "denied"
  ELSE "admin"

\* which of App's returns renders
View ==
  IF app.loadingAuth THEN "loading"
  ELSE IF isPatientView THEN "patient"
  ELSE IF app.user = NoUser THEN "login"
  ELSE IF ~app.isAuthorized THEN "denied"
  ELSE "admin"

\* the hashchange listener: setCurrentHash(window.location.hash)
HandleHashChange(h) ==
  /\ h # app.currentHash
  /\ app' = [app EXCEPT !.currentHash = h]
  /\ lastEvent' = [op |-> "handleHashChange"]
  /\ UNCHANGED <<store, usedIds, clock, queue, pv, ad, session, createCalls>>

\* the bug of a callback that grants the admin flag and never takes it back
AuthStateChangedNeverRevokes ==
  /\ ~session.notified
  /\ app' = [app EXCEPT !.user = session.user,
                        !.isAuthorized = @ \/ Authorized(session.user),
                        !.loadingAuth = FALSE]
  /\ session' = [session EXCEPT !.notified = TRUE]
  /\ lastEvent' = [op |-> "onAuthStateChanged", before |-> View]
  /\ UNCHANGED <<store, usedIds, clock, queue, pv, ad, createCalls>>

\* the onAuthStateChanged callback, run for the first session and for every
\* change of it
AuthStateChanged ==
  /\ ~session.notified
  /\ app' = [app EXCEPT !.user = session.user,
                        !.isAuthorized = Authorized(session.user),
                        !.loadingAuth = FALSE]
  /\ session' = [session EXCEPT !.notified = TRUE]
  /\ lastEvent' = [op |-> "onAuthStateChanged", before |-> View]
  /\ UNCHANGED <<store, usedIds, clock, queue, pv, ad, createCalls>>

\* Login's handleLogin: signInWithPopup resolves with the account chosen, or
\* rejects
HandleLogin(email, ok) ==
  /\ View = "login"
  /\ session' = IF ok THEN [user |-> User(email), notified |-> FALSE] ELSE session
  /\ lastEvent' = [op |-> "handleLogin", ok |-> ok]
  /\ UNCHANGED <<store, usedIds, clock, queue, pv, ad, app, createCalls>>

\* handleLogout, from the access-denied card and from the dashboard: signOut
\* resolves, or rejects and the error is logged
HandleLogout(ok) ==
  /\ View \in {"denied", "admin"}
  /\ session' = IF ok /\ session.user # NoUser
                THEN [user |-> NoUser, notified |-> FALSE] ELSE session
  /\ lastEvent' = [op |-> "handleLogout", ok |-> ok]
  /\ UNCHANGED <<store, usedIds, clock, queue, pv, ad, app, createCalls>>

\* the session changes without this page's doing: the same browser signs in
\* or out in another tab, and the identity collaborator shares the session
SessionChangesElsewhere(u) ==
  /\ u # session.user
  /\ session' = [user |-> u, notified |-> FALSE]
  /\ lastEvent' = [op |-> "session changed elsewhere"]
  /\ UNCHANGED <<store, usedIds, clock, queue, pv, ad, app, createCalls>>


\* --------------------------------------------------------------- the store
\* the bug of a handler that goes on only when its write went through
PvAfterOnSuccess(w, result) ==
  IF ~pv.mounted \/ result # "ok" THEN pv
  ELSE CASE w.handler = "handleSendMessage" -> [pv EXCEPT !.messageText = <<>>]
         [] w.handler = "handleCancel" -> [pv EXCEPT !.showCancelModal = FALSE]
         [] OTHER -> pv

\* what the code after a handler's await does to the PatientView
PvAfter(w, result) ==
  IF ~pv.mounted THEN pv
  ELSE CASE w.handler = "handleSendMessage" -> [pv EXCEPT !.messageText = <<>>]
         [] w.handler = "handleCancel" -> [pv EXCEPT !.showCancelModal = FALSE]
         [] OTHER -> pv

\* what the code after a handler's await does to the AdminDashboard:
\* handleSubmit and handleCreate close and reset the form unless
\* createAppointment threw
AdAfter(w, result) ==
  IF ~ad.mounted THEN ad
  ELSE CASE w.handler = "handleSendChat" -> [ad EXCEPT !.chatMessage = <<>>]
         [] w.handler \in {"handleSubmit", "handleCreate"} ->
              IF w.op = "addDoc" /\ Raised(result) THEN ad
              ELSE [ad EXCEPT !.isModalOpen = FALSE, !.editingId = NoId,
                              !.formData = EmptyForm]
         [] OTHER -> ad

\* the alert() calls that follow the store's answer to write w: the hint of
\* createAppointment's catch, then the prompt of the catch of the handler
\* that called it
Alerts(w, result) ==
  IF w.op # "addDoc" \/ result = "ok" THEN <<>>
  ELSE (IF result = "permission-denied" THEN <<"admin-auth hint">> ELSE <<>>)
       \o (IF ~Raised(result) THEN <<>>
           ELSE IF w.handler = "handleCreate" THEN <<"Error al crear la cita.">>
           ELSE <<"Error al guardar la cita.">>)

\* the store answers the oldest write of client c, and the handler that
\* awaited it runs to its end
StoreAnswers(c, outcome) ==
  /\ queue[c] # <<>>
  /\ LET w == Head(queue[c])
         result == WriteResult(store, w, outcome)
     IN  /\ store' = ApplyWrite(store, w, outcome)
         /\ queue' = [queue EXCEPT ![c] = Tail(@)]
         /\ pv' = IF c = "patient" THEN PvAfter(w, result) ELSE pv
         /\ ad' = IF c = "admin" THEN AdAfter(w, result) ELSE ad
         /\ lastEvent' = [op |-> "StoreAnswers", write |-> w.op, id |-> w.id,
                          handler |-> w.handler, result |-> result,
                          alerts |-> Alerts(w, result),
                          raised |-> IF w.op = "addDoc" THEN Raised(result)
                                     ELSE Swallowed(result)]
  /\ UNCHANGED <<usedIds, clock, app, session, createCalls>>

\* the bug of a fetch failure answered from nowhere
GetAppointmentByIdNoCatch(st, id, outcome) ==
  IF outcome = "ok" THEN DocOrAbsent(st, id) ELSE [error |-> outcome]

\* getAppointmentById(id): the fetch may fail; the catch returns undefined
GetAppointmentByIdResult(st, id, outcome) ==
  IF outcome = "ok" THEN DocOrAbsent(st, id) ELSE Absent

\* a call of getAppointmentById(id) and what its caller gets
GetAppointmentById(id, outcome) ==
  /\ lastEvent' = [op |-> "getAppointmentById", id |-> id, outcome |-> outcome,
                   value |-> GetAppointmentByIdResult(store, id, outcome),
                   raised |-> outcome # "ok" /\ Swallowed(outcome)]
  /\ UNCHANGED <<store, usedIds, clock, queue, pv, ad, app, session, createCalls>>

\* a millisecond passes
Tick ==
  /\ clock < MaxClock
  /\ clock' = clock + 1
  /\ lastEvent' = [op |-> "Tick"]
  /\ UNCHANGED <<store, usedIds, queue, pv, ad, app, session, createCalls>>


\* ------------------------------------------------------------- the program
AppInit(h) ==
  [currentHash |-> h, user |-> NoUser, loadingAuth |-> TRUE, isAuthorized |-> FALSE]

\* The page is loaded with some fragment; the identity collaborator may hold
\* a session persisted by an earlier visit.
Init ==
  /\ store = <<>>
  /\ usedIds = {}
  /\ clock = 0
  /\ queue = [c \in Clients |-> <<>>]
  /\ pv = PvInit
  /\ ad = AdInit
  /\ \E h \in Hashes : app = AppInit(h)
  /\ \E u \in {NoUser} \cup {User(e) : e \in Emails} :
        session = [user |-> u, notified |-> FALSE]
  /\ createCalls = <<>>
  /\ lastEvent = [op |-> "init"]

PatientLifeNext ==
  \/ \E id \in LinkIds : PvOpen(id)
  \/ \E id \in LinkIds : PvChangeId(id)
  \/ PvClose
  \/ PvSnapshot
  \/ PvSnapshotError
  \/ PvOpenCancelModal
  \/ PvCloseCancelModal
  \/ \E r \in Reasons : PvTypeReason(r)
  \/ PvCancel
  \/ \E answer \in BOOLEAN : PvResume(answer)

PatientChatNext ==
  \/ \E t \in Texts : PvTypeMessage(t)
  \/ PvSendMessage

PatientNext == PatientLifeNext \/ PatientChatNext

AdminNext ==
  \/ AdOpen
  \/ AdClose
  \/ AdSnapshot
  \/ AdSnapshotError
  \/ \E v \in {"agenda", "history", "dashboard"} : AdSetView(v)
  \/ \E term \in SearchTerms : AdSearch(term)
  \/ AdOpenCreateModal
  \/ \E i \in 1..MaxDocs : AdEditClick(i)
  \/ \E fd \in FormValues : AdSetForm(fd)
  \/ AdCloseModal
  \/ AdSubmit
  \/ \E i \in 1..MaxDocs, answer \in BOOLEAN : AdDelete(i, answer)
  \/ \E i \in 1..MaxDocs : AdOpenChat(i)
  \/ AdCloseChat
  \/ \E t \in Texts : AdTypeChat(t)
  \/ AdSendChat

AppNext ==
  \/ \E h \in Hashes : HandleHashChange(h)
  \/ AuthStateChanged
  \/ \E e \in Emails, ok \in BOOLEAN : HandleLogin(e, ok)
  \/ \E ok \in BOOLEAN : HandleLogout(ok)

StoreNext ==
  \/ \E c \in Clients, outcome \in Outcomes : StoreAnswers(c, outcome)
  \/ \E id \in DocIds, outcome \in Outcomes : GetAppointmentById(id, outcome)
  \/ Tick

Next == PatientNext \/ AdminNext \/ AppNext \/ StoreNext

Spec == Init /\ [][Next]_vars

\* ---------------------------------------------------------- the view router
\* the App alone: fragment changes, sign-in, sign-out, session callbacks
SpecRouter == Init /\ [][AppNext]_vars

\* what follows the prefix in the fragment
AfterPrefix == SubSeq(app.currentHash, Len(ApptPrefix) + 1, Len(app.currentHash))

\* the priority of the four experiences, for the state App holds
RouterPriority ==
  /\ isPatientView => View = "patient" /\ appointmentId = AfterPrefix
  /\ ~isPatientView /\ app.user = NoUser => View = "login"
  /\ ~isPatientView /\ app.user # NoUser /\ app.user.email # ADMIN_EMAIL
       => View = "denied"
  /\ ~isPatientView /\ app.user # NoUser /\ app.user.email = ADMIN_EMAIL
       => View = "admin"
  /\ View = "admin" => app.user # NoUser /\ app.user.email = ADMIN_EMAIL

\* C8 as stated: whatever App's state, the router picks the Patient Experience
\* for a fragment starting with '#appt-' (with the id after the prefix),
\* else sign-in without a session, else access-denied for a session whose
\* email is not the admin address, else the Admin Experience; the Admin
\* Experience only for a session with exactly the admin address.
C8_AsStated == RouterPriority

\* C8 amended: once the first session callback has been delivered
\* (loadingAuth is false), the router picks the experience by that priority;
\* before it, only the loading placeholder is rendered.
C8_RouterPriority ==
  IF app.loadingAuth THEN View = "loading" ELSE RouterPriority

\* a share link is open while the admin is signed in: the Patient Experience
\* wins over the session
C8_Witness ==
  /\ ~app.loadingAuth /\ isPatientView /\ appointmentId \in DocIds
  /\ app.user = User(ADMIN_EMAIL) /\ app.isAuthorized
  /\ View = "patient"

\* ------------------------------------------------- subscribeToAppointments
\* d without the fields of drop
Without(d, drop) == [k \in DOMAIN d \ drop |-> d[k]]

\* a form as the admin submits it
Form(n, d, t, tt, c) ==
  [patientName |-> n, patientEmail |-> <<>>, patientPhone |-> <<>>,
   date |-> d, time |-> t, treatmentType |-> tt, customTreatment |-> c]

\* the documents the sort is tried on: appointments as createAppointment
\* writes them, and records of other origin that lack a date or a time
SortDocs ==
  {Without(NewAppointment(Payload(Form(<<65>>, d, t, <<76, 105, 109, 112>>, <<>>)), 0), drop) :
     d \in {<<49>>, <<50>>}, t \in {<<49>>, <<49, 48>>},
     drop \in {{}, {"date"}, {"date", "time"}}}

\* the variables of the parts of the program that are at rest
AppAtRest ==
  /\ app = AppInit(<<>>)
  /\ session = [user |-> NoUser, notified |-> FALSE]

InitSort ==
  /\ \E ids \in SUBSET DocIds : store \in [ids -> SortDocs]
  /\ usedIds = DOMAIN store
  /\ clock = 0
  /\ queue = [c \in Clients |-> <<>>]
  /\ pv = PvInit
  /\ ad = AdInit
  /\ AppAtRest
  /\ createCalls = <<>>
  /\ lastEvent = [op |-> "init"]

NextSort ==
  \/ AdOpen
  \/ AdClose
  \/ AdSnapshot
  \/ \E i \in 1..MaxDocs, answer \in BOOLEAN : AdDelete(i, answer)
  \/ \E outcome \in Outcomes : StoreAnswers("admin", outcome)

\* the dashboard's subscription over a collection of any content
SpecSort == InitSort /\ [][NextSort]_vars

\* (date, time) of a strictly before (date, time) of b, a missing one being ''
PairLess(a, b) ==
  \/ StrLess(OrEmpty(a, "date"), OrEmpty(b, "date"))
  \/ /\ OrEmpty(a, "date") = OrEmpty(b, "date")
     /\ StrLess(OrEmpty(a, "time"), OrEmpty(b, "time"))

Count(s, x) == Cardinality({i \in 1..Len(s) : s[i] = x})

\* C1: the sequence subscribeToAppointments gives its callback has every
\* appointment with a strictly smaller (date, time) before every one with a
\* larger, and is a permutation of the snapshot's documents.
C1_SortedPermutation ==
  /\ \A i, j \in 1..Len(ad.appointments) :
        PairLess(ad.appointments[i], ad.appointments[j]) => i < j
  /\ lastEvent.op = "AdSnapshot" =>
        /\ Len(ad.appointments) = Len(lastEvent.docs)
        /\ \A i \in 1..Len(lastEvent.docs) :
              Count(ad.appointments, lastEvent.docs[i]) = 1

\* three documents, one without a date, delivered in another order than the
\* snapshot's
C1_Witness ==
  /\ lastEvent.op = "AdSnapshot"
  /\ Len(ad.appointments) = 3
  /\ ad.appointments # lastEvent.docs
  /\ \E i \in 1..3 : "date" \notin DOMAIN ad.appointments[i]
  /\ \E i \in 1..2 :
        /\ OrEmpty(ad.appointments[i], "date") = OrEmpty(ad.appointments[i + 1], "date")
        /\ PairLess(ad.appointments[i], ad.appointments[i + 1])

\* ------------------------------------------------- the patient's experience
\* the collections a part of the program starts from: the first k ids hold
\* documents of docs, for every k up to n
SeedStores(docs, n) ==
  UNION {[{DocId(i) : i \in 1..k} -> docs] : k \in 0..n}

\* an appointment as handleSubmit and createAppointment wrote it
Created(d, t) ==
  NewAppointment(Payload(Form(<<65, 110, 97>>, d, t, <<76, 105, 109, 112>>, <<>>)), 0)

InitPatient ==
  /\ store \in SeedStores({Created(<<50>>, <<49>>)}, MaxSeed)
  /\ usedIds = DOMAIN store
  /\ clock = 0
  /\ queue = [c \in Clients |-> <<>>]
  /\ pv = PvInit
  /\ ad = AdInit
  /\ AppAtRest
  /\ createCalls = <<>>
  /\ lastEvent = [op |-> "init"]

NextPatient ==
  \/ PatientLifeNext
  \/ \E outcome \in Outcomes : StoreAnswers("patient", outcome)

\* a patient's browser on a share link and the store, the chat left aside
SpecPatient == InitPatient /\ [][NextPatient]_vars

\* a reason that is empty or made of spaces only
BlankReason(r) == \A i \in 1..Len(r) : r[i] = 32

\* C4: a click on the cancel modal's confirm button with an empty or
\* whitespace-only reason sends nothing to the store and changes no stored
\* appointment.
C4_BlankReasonRejected ==
  [][(PvCancel /\ BlankReason(pv.cancelReason))
       => (queue' = queue /\ store' = store /\ ~lastEvent'.issued)]_vars

\* the confirm button has been clicked with a whitespace-only reason on a
\* scheduled appointment
C4_Witness ==
  /\ lastEvent.op = "handleCancel" /\ lastEvent.reason = <<32>>
  /\ PvShown /\ pv.showCancelModal /\ pv.appointment.status = SCHEDULED
  /\ Exists(store, pv.appointment.id)

\* handleResume has finished after a confirmed prompt: updateAppointment
\* returned at once, or the store has applied its write
ResumeDone ==
  \/ lastEvent.op = "handleResume" /\ lastEvent.called /\ ~lastEvent.sent
  \/ /\ lastEvent.op = "StoreAnswers" /\ lastEvent.handler = "handleResume"
     /\ lastEvent.result = "ok"

\* C6: once a confirmed resume on a cancelled appointment has finished, the
\* stored record has status SCHEDULED and no cancellation reason; a declined
\* prompt sends nothing.
C6_ResumeReschedules ==
  /\ ResumeDone /\ Exists(store, lastEvent.id) =>
       /\ store[lastEvent.id].status = SCHEDULED
       /\ "cancellationReason" \notin DOMAIN store[lastEvent.id]
  /\ lastEvent.op = "handleResume" /\ ~lastEvent.called => ~lastEvent.sent

\* C27: every write the PatientView issues is on the appointment id the view
\* is given at that moment.
C27_WritesTargetGivenId ==
  [][Len(queue'["patient"]) > Len(queue["patient"]) =>
       queue'["patient"][Len(queue'["patient"])].id = pv.appointmentId]_vars

\* ------------------------------------------------------------------ delete
InitDelete ==
  /\ store = DocId(1) :> Created(<<50>>, <<49>>)
  /\ usedIds = DOMAIN store
  /\ clock = 0
  /\ queue = [c \in Clients |-> <<>>]
  /\ pv = PvInit
  /\ ad = AdInit
  /\ AppAtRest
  /\ createCalls = <<>>
  /\ lastEvent = [op |-> "init"]

NextDelete ==
  \/ \E id \in LinkIds : PvOpen(id)
  \/ PvClose
  \/ PvSnapshot
  \/ PvSnapshotError
  \/ PvOpenCancelModal
  \/ PvTypeReason(<<102, 108, 117>>)
  \/ PvCancel
  \/ AdOpen
  \/ AdSnapshot
  \/ \E i \in 1..MaxDocs, answer \in BOOLEAN : AdDelete(i, answer)
  \/ \E c \in Clients, outcome \in Outcomes : StoreAnswers(c, outcome)
  \/ \E id \in DocIds, outcome \in Outcomes : GetAppointmentById(id, outcome)

\* the admin deletes appointments that a patient has open
SpecDelete == InitDelete /\ [][NextDelete]_vars

\* the store's answers and the listener's snapshots are not withheld forever
SpecDeleteFair == SpecDelete /\ WF_vars(PvSnapshot)

\* the appointment with this id has been deleted (this part of the program
\* creates none, so every id handed out was once in the collection)
Deleted(id) == id \in usedIds /\ ~Exists(store, id)

\* the PatientView's listener is on this id
Listening(id) == pv.listener = "live" /\ pv.appointmentId = id

\* the PatientView shows "Cita no encontrada"
NotFound == pv.mounted /\ ~pv.loading /\ pv.appointment = Absent

\* C5: once an appointment is deleted it stays absent, every later
\* getAppointmentById on its id returns undefined without raising, a snapshot
\* delivered to a listener on its id is the data callback with "does not
\* exist", and a listener that stays on its id does get that snapshot, so the
\* view shows not-found.
C5_DeletedIsAbsent ==
  /\ [][\A id \in DocIds : Deleted(id) =>
          /\ Deleted(id)'
          /\ (lastEvent'.op = "getAppointmentById" /\ lastEvent'.id = id)
               => (lastEvent'.value = Absent /\ ~lastEvent'.raised)
          /\ (Listening(id) /\ lastEvent'.op = "PvSnapshot")
               => (NotFound' /\ Listening(id)')]_vars
  /\ \A id \in DocIds :
       (Deleted(id) /\ Listening(id)) ~> (NotFound \/ ~Listening(id))

\* a view that showed the appointment has moved to not-found after the delete
C5_Witness ==
  /\ \E id \in DocIds : Deleted(id) /\ Listening(id)
  /\ NotFound /\ pv.delivered
  /\ lastEvent.op = "PvSnapshot" /\ ~lastEvent.exists

\* C10: getAppointmentById raises nothing; it returns the stored record with
\* the document's id when the fetch succeeds and the id exists, and absent
\* both when the id does not exist and when the fetch fails.
C10_NeverRaises ==
  lastEvent.op = "getAppointmentById" =>
    /\ ~lastEvent.raised
    /\ IF lastEvent.outcome = "ok" /\ Exists(store, lastEvent.id)
       THEN /\ lastEvent.value # Absent
            /\ lastEvent.value.id = lastEvent.id
            /\ \A k \in DOMAIN store[lastEvent.id] :
                  lastEvent.value[k] = store[lastEvent.id][k]
       ELSE lastEvent.value = Absent

\* the fetch of a stored appointment failed and the caller got absent
C10_Witness ==
  /\ lastEvent.op = "getAppointmentById"
  /\ lastEvent.outcome = "permission-denied"
  /\ Exists(store, lastEvent.id)
  /\ lastEvent.value = Absent /\ ~lastEvent.raised

\* ------------------------------------------------------------------ the chat
InitChat ==
  /\ store = DocId(1) :> Created(<<50>>, <<49>>)
  /\ usedIds = DOMAIN store
  /\ clock = 0
  /\ queue = [c \in Clients |-> <<>>]
  /\ pv = PvInit
  /\ ad = AdInit
  /\ AppAtRest
  /\ createCalls = <<>>
  /\ lastEvent = [op |-> "init"]

NextChat ==
  \/ PvOpen(DocId(1))
  \/ PvSnapshot
  \/ PvTypeMessage(<<104, 105>>)
  \/ PvSendMessage
  \/ AdOpen
  \/ AdSnapshot
  \/ \E i \in 1..MaxDocs : AdOpenChat(i)
  \/ AdTypeChat(<<104, 105>>)
  \/ AdSendChat
  \/ \E c \in Clients, outcome \in Outcomes : StoreAnswers(c, outcome)
  \/ Tick

\* the doctor and the patient write in the chat of one appointment
SpecChat == InitChat /\ [][NextChat]_vars

\* the store applies the addMessage call that client c issued first
MessageStored(c) ==
  /\ queue[c] # <<>>
  /\ Head(queue[c]).op = "arrayUnion"
  /\ Exists(store, Head(queue[c]).id)
  /\ StoreAnswers(c, "ok")

\* the messages the PatientView renders
PvMessages == OrEmpty(pv.appointment, "messages")

\* the messages the chat modal renders for appointment id
AdMessages(id) ==
  LET at == {i \in 1..Len(ad.appointments) : ad.appointments[i].id = id}
  IN  IF at = {} THEN <<>> ELSE OrEmpty(ad.appointments[CHOOSE i \in at : TRUE], "messages")

\* C2: every addMessage call the store accepts, from the doctor or the
\* patient and in any interleaving, makes the stored list one message longer
\* with that message in it exactly once and the earlier messages kept in
\* place; a reader's snapshot carries the list in the stored order.
C2_AllMessagesOnce ==
  /\ [][\A c \in Clients : MessageStored(c) =>
          LET w      == Head(queue[c])
              before == OrEmpty(store[w.id], "messages")
              after  == OrEmpty(store'[w.id], "messages")
          IN  /\ Len(after) = Len(before) + 1
              /\ SubSeq(after, 1, Len(before)) = before
              /\ Count(after, w.data) = 1]_vars
  /\ [](lastEvent.op = "PvSnapshot" /\ lastEvent.exists
          => PvMessages = OrEmpty(store[pv.appointmentId], "messages"))
  /\ [](lastEvent.op = "AdSnapshot"
          => \A id \in DOMAIN store : AdMessages(id) = OrEmpty(store[id], "messages"))

\* the stored message list of appointment id
Stored(id) == OrEmpty(store[id], "messages")

\* the chats show the stored list as it is: a snapshot hands each view the
\* list in its stored order, and the views render it without sorting
DisplayedAsStored ==
  /\ (lastEvent.op = "PvSnapshot" /\ lastEvent.exists)
       => PvMessages = Stored(pv.appointmentId)
  /\ lastEvent.op = "AdSnapshot"
       => \A id \in DOMAIN store : AdMessages(id) = Stored(id)

\* C17 as stated: of two stored messages of an appointment, the one whose
\* client timestamp is earlier comes first in the stored list, and the chats
\* show the stored order.
C17_SendOrder ==
  /\ \A id \in DOMAIN store : \A i, j \in 1..Len(Stored(id)) :
       Stored(id)[i].timestamp < Stored(id)[j].timestamp => i < j
  /\ DisplayedAsStored

\* C17 amended: of two stored messages of the same sender, the one whose
\* client timestamp is earlier comes first in the stored list; messages of
\* different senders are in the order the store applied them; the chats show
\* the stored order.
C17_SenderOrder ==
  /\ \A id \in DOMAIN store : \A i, j \in 1..Len(Stored(id)) :
       ( /\ Stored(id)[i].sender = Stored(id)[j].sender
         /\ Stored(id)[i].timestamp < Stored(id)[j].timestamp ) => i < j
  /\ DisplayedAsStored

\* the patient's two messages, sent at different times, are shown in the
\* PatientView in the order sent
C17_Witness ==
  /\ lastEvent.op = "PvSnapshot" /\ lastEvent.exists
  /\ Len(PvMessages) = 2
  /\ PvMessages[1].sender = "patient" /\ PvMessages[2].sender = "patient"
  /\ PvMessages[1].timestamp < PvMessages[2].timestamp

\* C26: no two messages of one stored appointment have the same id.
C26_MessageIdsUnique ==
  \A id \in DOMAIN store :
    \A i, j \in 1..Len(Stored(id)) :
      i # j => Stored(id)[i].id # Stored(id)[j].id

\* ------------------------------------------------------------------- resume
\* an appointment as handleCancel's update left it
Cancelled(a, reason) == [status |-> CANCELLED, cancellationReason |-> reason] @@ a

InitResume ==
  /\ store \in SeedStores({Created(<<50>>, <<49>>),
                           Cancelled(Created(<<50>>, <<49>>), <<102, 108, 117>>)},
                          MaxSeed)
  /\ usedIds = DOMAIN store
  /\ clock = 0
  /\ queue = [c \in Clients |-> <<>>]
  /\ pv = PvInit
  /\ ad = AdInit
  /\ AppAtRest
  /\ createCalls = <<>>
  /\ lastEvent = [op |-> "init"]

NextResume ==
  \/ \E id \in LinkIds : PvOpen(id)
  \/ PvClose
  \/ PvSnapshot
  \/ PvOpenCancelModal
  \/ PvCloseCancelModal
  \/ PvTypeReason(<<102, 108, 117>>)
  \/ PvCancel
  \/ \E answer \in BOOLEAN : HandleResume(answer)
  \/ \E outcome \in Outcomes : StoreAnswers("patient", outcome)

\* handleResume called on the appointment in view, whatever its status
SpecResume == InitResume /\ [][NextResume]_vars

\* the stored appointment that handleResume is called on is SCHEDULED
OnScheduled ==
  /\ pv.mounted /\ pv.appointment # Absent
  /\ Exists(store, pv.appointment.id)
  /\ store[pv.appointment.id].status = SCHEDULED

\* handleResume has just run to its end on the appointment in view
JustResumed ==
  /\ lastEvent.op = "handleResume" /\ lastEvent.called
  /\ pv.mounted /\ pv.appointment # Absent /\ lastEvent.id = pv.appointment.id

\* C7: handleResume on an appointment whose stored status is SCHEDULED
\* surfaces no error and leaves the stored record as it is, status SCHEDULED;
\* a second handleResume right after a first leaves the stored collection as
\* the first left it and surfaces no error either.
C7_ResumeIdempotent ==
  [][\A answer \in BOOLEAN :
       /\ (OnScheduled /\ HandleResume(answer)) =>
             /\ ~lastEvent'.raised
             /\ store' = store
             /\ store'[pv.appointment.id].status = SCHEDULED
       /\ (JustResumed /\ HandleResume(answer)) =>
             /\ ~lastEvent'.raised
             /\ store' = store]_vars

\* a confirmed resume has run on a stored SCHEDULED appointment
C7_Witness ==
  /\ lastEvent.op = "handleResume" /\ lastEvent.called /\ ~lastEvent.raised
  /\ Exists(store, lastEvent.id)
  /\ store[lastEvent.id].status = SCHEDULED

\* ---------------------------------------------------------- create and fetch
\* the forms the admin fills in
CreateForms ==
  {Form(<<65, 110, 97>>, <<50>>, <<49, 48>>, manual, c) : c \in {<<32>>, <<120>>}}

InitCreate ==
  /\ store = <<>>
  /\ usedIds = {}
  /\ clock = 0
  /\ queue = [c \in Clients |-> <<>>]
  /\ pv = PvInit
  /\ ad = AdInit
  /\ AppAtRest
  /\ createCalls = <<>>
  /\ lastEvent = [op |-> "init"]

NextCreate ==
  \/ AdOpen
  \/ AdOpenCreateModal
  \/ \E fd \in CreateForms : AdSetForm(fd)
  \/ AdSubmit
  \/ HandleCreate
  \/ \E outcome \in Outcomes : StoreAnswers("admin", outcome)
  \/ \E id \in usedIds : GetAppointmentById(id, "ok")
  \/ Tick

\* the admin creates appointments, which are then fetched by id
SpecCreate == InitCreate /\ [][NextCreate]_vars

\* the fields createAppointment adds to those of its dto, and the id the
\* fetch adds
AddedFields == {"status", "createdAt", "messages", "id"}

\* C3: a fetch by id of an appointment that createAppointment stored yields
\* the fields of the dto with their values, status SCHEDULED, the id the
\* store assigned, a createdAt not before the time of the call, an empty
\* message list, and no other field.
C3_RoundTrip ==
  ( /\ lastEvent.op = "getAppointmentById" /\ lastEvent.outcome = "ok"
    /\ lastEvent.id \in DOMAIN createCalls
    /\ Exists(store, lastEvent.id) ) =>
      LET r    == lastEvent.value
          call == createCalls[lastEvent.id]
      IN  /\ r # Absent
          /\ DOMAIN r = DOMAIN call.dto \cup AddedFields
          /\ \A k \in DOMAIN call.dto : r[k] = call.dto[k]
          /\ r.status = SCHEDULED
          /\ r.id = lastEvent.id
          /\ r.createdAt >= call.at
          /\ r.messages = <<>>

\* an appointment with a hand-written treatment, created after the clock has
\* moved, has been fetched
C3_Witness ==
  /\ lastEvent.op = "getAppointmentById" /\ lastEvent.outcome = "ok"
  /\ lastEvent.id \in DOMAIN createCalls
  /\ Exists(store, lastEvent.id)
  /\ lastEvent.value # Absent
  /\ lastEvent.value.treatmentType = <<120>>
  /\ lastEvent.value.createdAt > 0

\* the store rejects the createAppointment call the admin issued first
CreateRejected(outcome) ==
  /\ outcome # "ok"
  /\ queue["admin"] # <<>>
  /\ Head(queue["admin"]).op = "addDoc"
  /\ StoreAnswers("admin", outcome)

\* C11: when the store rejects createAppointment, the error is raised to the
\* caller, the admin-auth hint is shown first exactly when the failure is
\* permission-denied, no appointment is inserted, and the form stays as it
\* was, open with its data, with the handler's error prompt shown; a create
\* that the store accepts raises nothing and shows no alert.
C11_CreateFailureRaised ==
  [][/\ \A outcome \in Outcomes : CreateRejected(outcome) =>
          /\ lastEvent'.raised
          /\ store' = store
          /\ ad' = ad
          /\ Len(lastEvent'.alerts) = (IF outcome = "permission-denied" THEN 2 ELSE 1)
          /\ (lastEvent'.alerts[1] = "admin-auth hint") <=> (outcome = "permission-denied")
          /\ lastEvent'.alerts[Len(lastEvent'.alerts)] \in
               {"Error al guardar la cita.", "Error al crear la cita."}
     /\ (lastEvent'.op = "StoreAnswers" /\ lastEvent'.result = "ok") =>
          (~lastEvent'.raised /\ lastEvent'.alerts = <<>>)]_vars

\* a create from handleSubmit was refused for lack of permission and the form
\* is still open with what the admin typed
C11_Witness ==
  /\ lastEvent.op = "StoreAnswers" /\ lastEvent.handler = "handleSubmit"
  /\ lastEvent.write = "addDoc" /\ lastEvent.result = "permission-denied"
  /\ lastEvent.raised /\ Len(lastEvent.alerts) = 2
  /\ ad.isModalOpen /\ ad.formData.customTreatment = <<120>>
  /\ ~Exists(store, lastEvent.id)

\* ------------------------------------------------------ agenda and history
InitAgenda ==
  /\ store \in SeedStores({Created(d, <<49>>) : d \in Dates}, MaxSeed)
  /\ usedIds = DOMAIN store
  /\ clock = 0
  /\ queue = [c \in Clients |-> <<>>]
  /\ pv = PvInit
  /\ ad = AdInit
  /\ AppAtRest
  /\ createCalls = <<>>
  /\ lastEvent = [op |-> "init"]

NextAgenda ==
  \/ AdOpen
  \/ AdSnapshot
  \/ \E v \in {"agenda", "history", "dashboard"} : AdSetView(v)
  \/ \E term \in SearchTerms : AdSearch(term)
  \/ \E id \in LinkIds : PvOpen(id)
  \/ PvSnapshot
  \/ PvOpenCancelModal
  \/ PvTypeReason(<<102, 108, 117>>)
  \/ PvCancel
  \/ \E outcome \in Outcomes : StoreAnswers("patient", outcome)

\* the admin's lists while patients cancel
SpecAgenda == InitAgenda /\ [][NextAgenda]_vars

\* the list the dashboard shows in a view for the subscribed appointments and
\* the search term typed
ListOf(view) == FilterEffect(ad.appointments, view, ad.searchTerm)

\* C9: with a blank search term every subscribed appointment is in exactly
\* one of the agenda list and the history list, in the agenda exactly when
\* its date is today or later and its status is neither COMPLETED nor
\* CANCELLED; the list on the page is the one of the current view; a
\* cancelled appointment is in the history with its reason.
C9_AgendaHistoryPartition ==
  (ad.mounted /\ Trim(ad.searchTerm) = <<>>) =>
    /\ \A i \in 1..Len(ad.appointments) :
         LET a == ad.appointments[i]
         IN  /\ Count(ListOf("agenda"), a) + Count(ListOf("history"), a) = 1
             /\ Count(ListOf("agenda"), a) = 1 <=>
                  /\ ~StrLess(a.date, Today)
                  /\ a.status \notin {COMPLETED, CANCELLED}
             /\ a.status = CANCELLED =>
                  /\ Count(ListOf("history"), a) = 1
                  /\ Trim(OrEmpty(a, "cancellationReason")) # <<>>
    /\ ad.currentView \in {"agenda", "history"} =>
         ad.filteredAppointments = ListOf(ad.currentView)

\* a cancellation of an appointment of today has reached the dashboard, which
\* shows the history
C9_Witness ==
  /\ ad.mounted /\ ad.searchTerm = <<>> /\ ad.currentView = "history"
  /\ \E i \in 1..Len(ad.filteredAppointments) :
       LET a == ad.filteredAppointments[i]
       IN  /\ a.status = CANCELLED /\ a.date = Today
           /\ a.cancellationReason = <<102, 108, 117>>

\* ------------------------------------------- update, addMessage and delete
InitWrites ==
  /\ store = DocId(1) :> Created(<<50>>, <<49>>)
  /\ usedIds = DOMAIN store
  /\ clock = 0
  /\ queue = [c \in Clients |-> <<>>]
  /\ pv = PvInit
  /\ ad = AdInit
  /\ AppAtRest
  /\ createCalls = <<>>
  /\ lastEvent = [op |-> "init"]

NextWrites ==
  \/ AdOpen
  \/ AdSnapshot
  \/ \E i \in 1..MaxDocs : AdEditClick(i)
  \/ AdSubmit
  \/ \E i \in 1..MaxDocs : AdDelete(i, TRUE)
  \/ \E i \in 1..MaxDocs : AdOpenChat(i)
  \/ AdTypeChat(<<104, 105>>)
  \/ AdSendChat
  \/ PvOpen(DocId(1))
  \/ PvSnapshot
  \/ PvOpenCancelModal
  \/ PvTypeReason(<<102, 108, 117>>)
  \/ PvCancel
  \/ PvResume(TRUE)
  \/ PvTypeMessage(<<104, 105>>)
  \/ PvSendMessage
  \/ \E c \in Clients, outcome \in {"ok", "unavailable"} : StoreAnswers(c, outcome)

\* the admin and the patient write to one appointment: edits, cancellation,
\* resume, chat messages and the delete, each accepted or rejected
SpecWrites == InitWrites /\ [][NextWrites]_vars

\* the store has just refused the write that client c issued first, a write
\* of updateAppointment, addMessage or deleteAppointment by handler h
Refused(c, h) ==
  /\ queue[c] # <<>>
  /\ Head(queue[c]).op # "addDoc"
  /\ Head(queue[c]).handler = h
  /\ \E outcome \in Outcomes : StoreAnswers(c, outcome)
  /\ lastEvent'.result # "ok"

\* C12: when the store refuses a write of updateAppointment, addMessage or
\* deleteAppointment, nothing is raised to the handler, the collection is
\* unchanged, and the handler goes on as after a success: handleSubmit closes
\* and resets the edit form, handleCancel closes the cancel modal,
\* handleSendMessage and handleSendChat clear the chat input.
C12_FailuresSwallowed ==
  [][/\ \A c \in Clients, h \in {"handleSubmit", "handleCancel", "handleResume",
                                 "handleSendMessage", "handleSendChat",
                                 "handleDelete"} :
          Refused(c, h) => (~lastEvent'.raised /\ lastEvent'.alerts = <<>> /\ store' = store)
     /\ Refused("admin", "handleSubmit") =>
          ad' = [ad EXCEPT !.isModalOpen = FALSE, !.editingId = NoId,
                           !.formData = EmptyForm]
     /\ Refused("admin", "handleSendChat") => ad' = [ad EXCEPT !.chatMessage = <<>>]
     /\ Refused("admin", "handleDelete") => ad' = ad
     /\ Refused("patient", "handleCancel") => pv' = [pv EXCEPT !.showCancelModal = FALSE]
     /\ Refused("patient", "handleSendMessage") => pv' = [pv EXCEPT !.messageText = <<>>]]_vars

\* a cancellation was refused by the store: the modal has closed and the
\* appointment is still scheduled
C12_Witness ==
  /\ lastEvent.op = "StoreAnswers" /\ lastEvent.handler = "handleCancel"
  /\ lastEvent.result = "unavailable" /\ ~lastEvent.raised
  /\ pv.mounted /\ ~pv.showCancelModal /\ pv.cancelReason = <<102, 108, 117>>
  /\ Exists(store, lastEvent.id) /\ store[lastEvent.id].status = SCHEDULED

\* a write on an id that is no longer in the collection has just been
\* answered by the store
StaleWriteAnswered ==
  /\ lastEvent.op = "StoreAnswers"
  /\ lastEvent.write \in {"updateDoc", "arrayUnion"}
  /\ lastEvent.id \in usedIds /\ ~Exists(store, lastEvent.id)

\* C14: an appointment that has been deleted stays absent through every
\* later step, whatever writes stale views still issue on its id, and each
\* such write is refused by the store.
C14_DeleteIrreversible ==
  /\ [][\A id \in usedIds : ~Exists(store, id) => ~Exists(store', id)]_vars
  /\ [](StaleWriteAnswered => lastEvent.result # "ok")

\* a chat message sent from a view that still showed the appointment reached
\* the store after the delete
C14_Witness ==
  /\ StaleWriteAnswered
  /\ lastEvent.write = "arrayUnion" /\ lastEvent.result = "not-found"
  /\ store = <<>>

\* s is a prefix of t
IsPrefix(s, t) == Len(s) <= Len(t) /\ SubSeq(t, 1, Len(s)) = s

\* C16: across every step that keeps an appointment in the collection, its
\* stored message list before the step is a prefix of its list after; an
\* appointment's messages go only when the appointment itself is deleted.
C16_MessagesAppendOnly ==
  [][\A id \in DOMAIN store :
       IF Exists(store', id)
       THEN IsPrefix(OrEmpty(store[id], "messages"), OrEmpty(store'[id], "messages"))
       ELSE lastEvent'.op = "StoreAnswers" /\ lastEvent'.write = "deleteDoc"
            /\ lastEvent'.id = id]_vars

\* a second message has been appended behind the first, on an appointment
\* that has been cancelled in between
C16_Witness ==
  /\ lastEvent.op = "StoreAnswers" /\ lastEvent.write = "arrayUnion"
  /\ lastEvent.result = "ok"
  /\ Exists(store, lastEvent.id)
  /\ Len(store[lastEvent.id].messages) = 2
  /\ store[lastEvent.id].messages[1].sender # store[lastEvent.id].messages[2].sender
  /\ store[lastEvent.id].status = CANCELLED

\* C25: an addMessage write that the store applies to an appointment whose
\* stored status is CANCELLED at that moment does not change the
\* appointment's message list.
C25_ChatClosedWhileCancelled ==
  [][\A id \in DOMAIN store \cap DOMAIN store' :
       store[id].status = CANCELLED =>
         store'[id].messages = store[id].messages]_vars

\* ------------------------------------------------------ edit against cancel
\* the form the admin saves in an edit: another date, time and treatment
EditForms == {Form(<<65, 110, 97>>, <<51>>, <<57>>, manual, <<120>>)}

InitEdits ==
  /\ store = DocId(1) :> Created(<<50>>, <<49>>)
  /\ usedIds = DOMAIN store
  /\ clock = 0
  /\ queue = [c \in Clients |-> <<>>]
  /\ pv = PvInit
  /\ ad = AdInit
  /\ AppAtRest
  /\ createCalls = <<>>
  /\ lastEvent = [op |-> "init"]

NextEdits ==
  \/ AdOpen
  \/ AdSnapshot
  \/ \E i \in 1..MaxDocs : AdEditClick(i)
  \/ \E fd \in EditForms : AdSetForm(fd)
  \/ AdSubmit
  \/ \E i \in 1..MaxDocs : AdDelete(i, TRUE)
  \/ PvOpen(DocId(1))
  \/ PvSnapshot
  \/ PvOpenCancelModal
  \/ PvTypeReason(<<102, 108, 117>>)
  \/ PvCancel
  \/ \E answer \in BOOLEAN : PvResume(answer)
  \/ \E c \in Clients, outcome \in {"ok", "unavailable"} : StoreAnswers(c, outcome)

\* the admin edits an appointment while its patient cancels it
SpecEdits == InitEdits /\ [][NextEdits]_vars

\* the store applies the updateAppointment call that client c issued first,
\* on a document that exists
UpdateApplied(c) ==
  /\ queue[c] # <<>>
  /\ Head(queue[c]).op = "updateDoc"
  /\ Exists(store, Head(queue[c]).id)
  /\ StoreAnswers(c, "ok")

\* the fields handleSubmit's payload carries
PayloadFields ==
  {"patientName", "patientEmail", "patientPhone", "date", "time", "treatmentType"}

\* C13: an update the store applies sets the fields it was given and leaves
\* every other field of the record, and every other record, as they were; so
\* once an admin edit and a patient cancel of one appointment have both been
\* applied, in either order, the record has the edited fields, status
\* CANCELLED with the reason, and the message list it had.
C13_UpdateMerges ==
  [][\A c \in Clients : UpdateApplied(c) =>
       LET w == Head(queue[c])
       IN  /\ DOMAIN store' = DOMAIN store
           /\ \A id \in DOMAIN store \ {w.id} : store'[id] = store[id]
           /\ DOMAIN store'[w.id] = DOMAIN store[w.id] \cup DOMAIN w.data
           /\ \A k \in DOMAIN w.data : store'[w.id][k] = w.data[k]
           /\ \A k \in DOMAIN store[w.id] \ DOMAIN w.data :
                store'[w.id][k] = store[w.id][k]
           /\ (w.handler = "handleSubmit" => DOMAIN w.data = PayloadFields)
           /\ (w.handler = "handleCancel" =>
                 DOMAIN w.data = {"status", "cancellationReason"})]_vars

\* the patient's cancel was applied after the admin's edit, and the record
\* carries both
C13_Witness ==
  /\ lastEvent.op = "StoreAnswers" /\ lastEvent.handler = "handleCancel"
  /\ lastEvent.result = "ok"
  /\ Exists(store, lastEvent.id)
  /\ LET r == store[lastEvent.id]
     IN  /\ r.date = <<51>> /\ r.time = <<57>> /\ r.treatmentType = <<120>>
         /\ r.status = CANCELLED /\ r.cancellationReason = <<102, 108, 117>>
         /\ r.messages = <<>> /\ r.createdAt = 0

\* C19: in every state a stored appointment with status CANCELLED has a
\* cancellation reason that is not blank, and one with status SCHEDULED has
\* no cancellationReason field; the update that cancels carries both the
\* status and the reason.
C19_ReasonWithCancelled ==
  /\ [](\A id \in DOMAIN store :
          /\ store[id].status = CANCELLED =>
               /\ "cancellationReason" \in DOMAIN store[id]
               /\ ~BlankReason(store[id].cancellationReason)
          /\ store[id].status = SCHEDULED =>
               "cancellationReason" \notin DOMAIN store[id])
  /\ [][\A id \in DOMAIN store \cap DOMAIN store' :
          (store[id].status = SCHEDULED /\ store'[id].status = CANCELLED) =>
             /\ "cancellationReason" \in DOMAIN store'[id]
             /\ lastEvent'.handler = "handleCancel"]_vars

\* a confirmed resume has been tried on an appointment the patient cancelled
\* with a reason
C19_Witness ==
  /\ lastEvent.op = "handleResume" /\ lastEvent.called
  /\ Exists(store, lastEvent.id)
  /\ store[lastEvent.id].status = CANCELLED
  /\ store[lastEvent.id].cancellationReason = <<102, 108, 117>>
  /\ store[lastEvent.id].date = <<51>>

\* ------------------------------------------------- the life of an appointment
InitLife ==
  /\ store = <<>>
  /\ usedIds = {}
  /\ clock = MaxClock
  /\ queue = [c \in Clients |-> <<>>]
  /\ pv = PvInit
  /\ ad = AdInit
  /\ AppAtRest
  /\ createCalls = <<>>
  /\ lastEvent = [op |-> "init"]

\* the client has no write in flight: its user waits for each answer
Quiet(c) == queue[c] = <<>>

NextLife ==
  \/ AdOpen
  \/ AdSnapshot
  \/ (usedIds = {} /\ AdOpenCreateModal)
  \/ \E fd \in EditForms : AdSetForm(fd)
  \/ \E i \in 1..MaxDocs : AdEditClick(i)
  \/ (Quiet("admin") /\ AdSubmit)
  \/ \E i \in 1..MaxDocs : (Quiet("admin") /\ AdDelete(i, TRUE))
  \/ \E id \in usedIds : PvOpen(id)
  \/ PvSnapshot
  \/ PvOpenCancelModal
  \/ PvTypeReason(<<102, 108, 117>>)
  \/ (Quiet("patient") /\ PvCancel)
  \/ (Quiet("patient") /\ PvResume(TRUE))
  \/ PvTypeMessage(<<104, 105>>)
  \/ (Quiet("patient") /\ PvSendMessage)
  \/ \E c \in Clients : StoreAnswers(c, "ok")

\* an appointment is created from an empty collection, then edited, cancelled,
\* resumed, written to in its chat and deleted, the store accepting every
\* write and each user waiting for the answer before the next write
SpecLife == InitLife /\ [][NextLife]_vars

\* C15: createdAt of a stored appointment is the time of the createAppointment
\* call that made it, and no step changes it while the appointment stays in
\* the collection.
C15_CreatedAtFixed ==
  /\ [](\A id \in DOMAIN store :
          id \in DOMAIN createCalls /\ store[id].createdAt = createCalls[id].at)
  /\ [][\A id \in DOMAIN store \cap DOMAIN store' :
          store'[id].createdAt = store[id].createdAt]_vars

\* an appointment created at a time after 0 has since been edited by the
\* admin, cancelled by the patient and written to in the chat
C15_Witness ==
  /\ lastEvent.op = "StoreAnswers" /\ lastEvent.handler = "handleSubmit"
  /\ lastEvent.write = "updateDoc" /\ lastEvent.result = "ok"
  /\ Exists(store, lastEvent.id)
  /\ LET r == store[lastEvent.id]
     IN  /\ r.createdAt = MaxClock /\ r.createdAt > 0
         /\ r.status = CANCELLED
         /\ Len(r.messages) = 1

\* C18: every stored appointment has status SCHEDULED or CANCELLED; none is
\* ever COMPLETED.
C18_NeverCompleted ==
  \A id \in DOMAIN store :
    /\ store[id].status \in {SCHEDULED, CANCELLED}
    /\ store[id].status # COMPLETED

\* a created appointment has been cancelled, and resume has been tried on it
C18_Witness ==
  /\ lastEvent.op = "handleResume" /\ lastEvent.called
  /\ Exists(store, lastEvent.id)
  /\ store[lastEvent.id].status = CANCELLED
  /\ lastEvent.id \in DOMAIN createCalls

\* ------------------------------------------------------------ subscriptions
InitSubs ==
  /\ store \in SeedStores({Created(<<50>>, <<49>>)}, MaxSeed)
  /\ usedIds = DOMAIN store
  /\ clock = 0
  /\ queue = [c \in Clients |-> <<>>]
  /\ pv = PvInit
  /\ ad = AdInit
  /\ AppAtRest
  /\ createCalls = <<>>
  /\ lastEvent = [op |-> "init"]

NextSubs ==
  \/ \E id \in LinkIds : PvOpen(id)
  \/ \E id \in LinkIds : PvChangeId(id)
  \/ PvClose
  \/ PvSnapshot
  \/ PvSnapshotError
  \/ AdOpen
  \/ AdClose
  \/ AdSnapshot
  \/ AdSnapshotError

\* the two views are mounted, re-targeted and torn down
SpecSubs == InitSubs /\ [][NextSubs]_vars

\* C20: an unmounted AdminDashboard and an unmounted PatientView hold no
\* subscription; a mounted PatientView holds at most one, on its current
\* appointmentId, so the one on a previous id has been released; a mounted
\* AdminDashboard holds the one on the collection.
C20_SubscriptionsReleased ==
  /\ ~ad.mounted => ad.subscribed = {}
  /\ ad.mounted => ad.subscribed = {COLLECTION_NAME}
  /\ ~pv.mounted => pv.subscribed = {}
  /\ pv.mounted =>
       /\ Cardinality(pv.subscribed) <= 1
       /\ pv.subscribed = (IF pv.appointmentId = <<>> THEN {} ELSE {pv.appointmentId})
  /\ pv.listener # "none" => pv.appointmentId \in pv.subscribed

\* the PatientView has been re-targeted from an appointment it had loaded to
\* another id
C20_Witness ==
  /\ lastEvent.op = "PvChangeId"
  /\ pv.appointment # Absent /\ pv.appointment.id # pv.appointmentId
  /\ pv.subscribed = {pv.appointmentId}

\* ------------------------------------------------- failure of the admin list
NextLoadError ==
  \/ AdOpen
  \/ AdClose
  \/ AdSnapshot
  \/ AdSnapshotError
  \/ \E v \in {"agenda", "history", "dashboard"} : AdSetView(v)
  \/ \E term \in {<<>>, <<97>>} : AdSearch(term)
  \/ AdOpenCreateModal
  \/ AdCloseModal
  \/ PvOpen(DocId(1))
  \/ PvSnapshot
  \/ PvOpenCancelModal
  \/ PvTypeReason(<<102, 108, 117>>)
  \/ PvCancel
  \/ StoreAnswers("patient", "ok")

\* the dashboard's subscription delivers or fails while the admin moves about
\* the page and a patient cancels
SpecLoadError == InitSubs /\ [][NextLoadError]_vars

\* C21: the error callback of the collection subscription runs on a live
\* listener and ends it, opens no subscription and issues no write; it leaves
\* the dashboard out of loading with the load error set; nothing restarts the
\* listener while the dashboard stays mounted; and the error of a mounted
\* dashboard is cleared by a data callback only.
C21_LoadErrorNoRetry ==
  /\ [][lastEvent'.op = "AdSnapshotError" =>
          /\ ad.listener = "live" /\ ad'.listener = "dead"
          /\ ad'.subscribed = ad.subscribed
          /\ queue' = queue /\ store' = store
          /\ ~ad'.loading /\ ad'.error]_vars
  /\ [][(ad.listener = "dead" /\ ad'.mounted) =>
          ad'.listener = "dead" /\ ad'.appointments = ad.appointments]_vars
  /\ [][(ad.error /\ ad'.mounted /\ ~ad'.error) =>
          lastEvent'.op = "AdSnapshot"]_vars

\* the subscription has failed after delivering the list, the store has
\* changed since, and the dashboard still shows the error and the old list
C21_Witness ==
  /\ ad.mounted /\ ad.listener = "dead" /\ ad.error /\ ~ad.loading
  /\ ad.appointments # <<>>
  /\ ad.appointments # SortAppointments(SnapshotDocs(store))
  /\ lastEvent.op = "AdSetView"

\* ------------------------------------------------- a link to no appointment
\* the ids of the links a patient holds
WaitIds == {DocId(1), DocId(2)}

NextAppear ==
  \/ \E id \in WaitIds : PvOpen(id)
  \/ \E id \in WaitIds : PvChangeId(id)
  \/ PvClose
  \/ PvSnapshot
  \/ PvSnapshotError
  \/ AdOpen
  \/ AdSnapshot
  \/ (usedIds = {} /\ AdOpenCreateModal)
  \/ \E fd \in EditForms : AdSetForm(fd)
  \/ (Quiet("admin") /\ AdSubmit)
  \/ \E i \in 1..MaxDocs : (Quiet("admin") /\ AdDelete(i, TRUE))
  \/ \E outcome \in {"ok", "unavailable"} : StoreAnswers("admin", outcome)

\* a patient opens a link before the appointment it names is in the
\* collection; the admin creates an appointment and deletes it,
\* waiting for each answer
SpecAppear == InitLife /\ [][NextAppear]_vars

\* a live listener is not denied its snapshot forever
SpecAppearFair == SpecAppear /\ WF_vars(PvSnapshot)

\* the view shows the appointment of the id it was given
ShowsOwn(id) == PvShown /\ pv.appointment.id = id

\* C22: a snapshot for an id that names no document takes the view out of
\* loading into not-found, issues no write and leaves the listener live and
\* the subscription as it was; a mounted view leaves not-found only by a
\* snapshot of a document that exists; and while the listener stays live on
\* an id whose document has come to exist, the view comes to show it.
C22_NotFoundWaits ==
  /\ [][(lastEvent'.op = "PvSnapshot" /\ ~lastEvent'.exists) =>
          /\ NotFound'
          /\ queue' = queue
          /\ pv'.listener = "live" /\ pv'.subscribed = pv.subscribed
          /\ pv'.subscribed = {pv.appointmentId}]_vars
  /\ [][(NotFound /\ pv'.mounted /\ ~NotFound') =>
          /\ lastEvent'.op = "PvSnapshot"
          /\ Exists(store', pv'.appointmentId)
          /\ ShowsOwn(pv.appointmentId)']_vars
  /\ \A id \in WaitIds :
       (NotFound /\ Listening(id) /\ Exists(store, id))
          ~> (ShowsOwn(id) \/ ~(Listening(id) /\ Exists(store, id)))

\* the view was in not-found on an id, the appointment with that id was
\* created afterwards, and the view now shows it
C22_Witness ==
  /\ lastEvent.op = "PvSnapshot" /\ lastEvent.exists
  /\ ShowsOwn(pv.appointmentId) /\ pv.listener = "live"
  /\ pv.appointmentId \in DOMAIN createCalls
  /\ ad.mounted /\ ~ad.isModalOpen

\* ------------------------------------------------------ the treatment prompt
\* the forms the admin fills in: a preset treatment, and the manual option
\* with nothing, a space and a word as the custom treatment
TreatForms ==
  {Form(<<65, 110, 97>>, <<51>>, <<57>>, <<79, 114, 116, 111>>, <<>>)}
    \cup {Form(<<65, 110, 97>>, <<51>>, <<57>>, manual, c) : c \in Customs}

NextForm ==
  \/ AdOpen
  \/ AdSnapshot
  \/ (usedIds = {} /\ AdOpenCreateModal)
  \/ \E i \in 1..MaxDocs : AdEditClick(i)
  \/ \E fd \in TreatForms : AdSetForm(fd)
  \/ AdCloseModal
  \/ (Quiet("admin") /\ AdSubmit)
  \/ (Quiet("admin") /\ ad.editingId = NoId /\ HandleCreate)
  \/ StoreAnswers("admin", "ok")

\* the admin creates an appointment and edits it through the form, waiting
\* for each answer
SpecForm == InitLife /\ [][NextForm]_vars

\* the form has the manual option with an empty or whitespace-only custom
\* treatment
BlankCustom(fd) ==
  fd.treatmentType = manual /\ BlankReason(fd.customTreatment)

\* C23: a submit of the form with the manual option and a blank custom
\* treatment shows the treatment prompt, sends nothing to the store, hands
\* out no id and leaves the form open as it was; and every stored
\* appointment has a treatmentType that is not blank.
C23_BlankTreatmentBlocked ==
  /\ [][(lastEvent'.op \in {"handleSubmit", "handleCreate"}
          /\ BlankCustom(ad.formData)) =>
            /\ ~lastEvent'.issued
            /\ lastEvent'.alerts = <<"Por favor especifica el tratamiento.">>
            /\ queue' = queue /\ store' = store
            /\ usedIds' = usedIds /\ createCalls' = createCalls
            /\ ad' = ad /\ ad.isModalOpen]_vars
  /\ [][(lastEvent'.op \in {"handleSubmit", "handleCreate"}
          /\ ~BlankCustom(ad.formData)) =>
            lastEvent'.issued /\ lastEvent'.alerts = <<>>]_vars
  /\ [](\A id \in DOMAIN store :
          /\ "treatmentType" \in DOMAIN store[id]
          /\ ~BlankReason(store[id].treatmentType))

\* the edit form of a stored appointment has been submitted with the manual
\* option and a custom treatment of one space, after an edit with a custom
\* treatment went through
C23_Witness ==
  /\ lastEvent.op = "handleSubmit" /\ lastEvent.editing /\ ~lastEvent.issued
  /\ ad.formData.treatmentType = manual /\ ad.formData.customTreatment = <<32>>
  /\ ad.isModalOpen
  /\ Exists(store, ad.editingId)
  /\ store[ad.editingId].treatmentType = <<120>>

\* ------------------------------------------------------ session and router
\* what the identity collaborator can hold: no session, or one of an address
Users == {NoUser} \cup {User(e) : e \in Emails}

NextSession ==
  \/ AppNext
  \/ \E u \in Users : SessionChangesElsewhere(u)

\* the App while the session changes, by its own sign-in and sign-out and
\* from elsewhere
SpecSession == Init /\ [][NextSession]_vars

\* the identity collaborator calls back for the first session and after
\* every change
SpecSessionFair == SpecSession /\ WF_vars(AuthStateChanged)

\* the experience the router owes a delivered session outside a share link
ViewFor(user) ==
  IF user = NoUser THEN "login"
  ELSE IF user.email = ADMIN_EMAIL THEN "admin"
  ELSE "denied"

\* C24: every session callback hands App the session held at that moment;
\* from the first callback on, isAuthorized is true exactly when the session
\* last delivered is present with the admin address; outside a share link
\* the view rendered is the one owed to that session, so a sign-out or a
\* non-admin session delivered while the Admin Experience is shown replaces
\* it by sign-in or access-denied; and a session not yet delivered is
\* delivered.
C24_AuthorizedTracksSession ==
  /\ [][lastEvent'.op = "onAuthStateChanged" =>
          /\ app'.user = session.user /\ ~app'.loadingAuth
          /\ (View = "admin" /\ ViewFor(session.user) # "admin")
               => View' \in {"login", "denied"}]_vars
  /\ [](~app.loadingAuth =>
          /\ app.isAuthorized <=>
               (app.user # NoUser /\ app.user.email = ADMIN_EMAIL)
          /\ ~isPatientView => View = ViewFor(app.user))
  /\ [](session.notified => app.user = session.user)
  /\ (~session.notified) ~> (session.notified /\ app.user = session.user)

\* the session of another address was delivered while the Admin Experience
\* was shown, and access-denied is shown now
C24_Witness ==
  /\ lastEvent.op = "onAuthStateChanged" /\ lastEvent.before = "admin"
  /\ app.user # NoUser /\ app.user.email # ADMIN_EMAIL
  /\ ~app.isAuthorized /\ View = "denied"

\* ------------------------------------------------- the page from its load
\* React commits what App returned: the PatientView of the patient branch is
\* mounted, or given its new appointmentId, the AdminDashboard of the admin
\* branch is mounted, and a view of a branch no longer returned is unmounted
AppRenders ==
  \/ (View = "patient" /\ PvOpen(appointmentId))
  \/ (View = "patient" /\ PvChangeId(appointmentId))
  \/ (View # "patient" /\ PvClose)
  \/ (View = "admin" /\ AdOpen)
  \/ (View # "admin" /\ AdClose)

NextBoot ==
  \/ AppNext
  \/ AppRenders
  \/ PvSnapshot
  \/ AdSnapshot

\* the page is loaded with some fragment and some persisted session, and the
\* views App returns are mounted
SpecBoot == Init /\ [][NextBoot]_vars

\* C28: while loadingAuth is set App returns the loading placeholder, no
\* PatientView and no AdminDashboard is mounted and no subscription on the
\* appointments is open; loadingAuth, once cleared by the first session
\* callback, is never set again.
C28_LoadingUntilFirstSession ==
  /\ [](app.loadingAuth =>
          /\ View = "loading"
          /\ ~pv.mounted /\ ~ad.mounted
          /\ pv.subscribed = {} /\ ad.subscribed = {}
          /\ pv.listener = "none" /\ ad.listener = "none")
  /\ [](app.loadingAuth => ~session.notified /\ app.user = NoUser)
  /\ [](lastEvent.op = "onAuthStateChanged" => ~app.loadingAuth)
  /\ [][~app.loadingAuth => ~app'.loadingAuth /\ View' # "loading"]_vars

\* the fragment has changed to a share link before the first session
\* callback, with the admin's session persisted, and nothing is mounted
C28_Witness ==
  /\ app.loadingAuth /\ lastEvent.op = "handleHashChange"
  /\ isPatientView /\ appointmentId \in DocIds
  /\ session.user = User(ADMIN_EMAIL)
  /\ ~pv.mounted /\ ~ad.mounted

\* ---------------------------------------------------------- edit round trip
\* the dashboard's copy of the appointment whose edit form is open
EditedCopy ==
  LET at == {i \in 1..Len(ad.appointments) : ad.appointments[i].id = ad.editingId}
  IN  IF at = {} THEN Absent ELSE ad.appointments[CHOOSE i \in at : TRUE]

\* the edit form is open as handleEditClick filled it from that copy
FormUntouched ==
  /\ ad.mounted /\ ad.isModalOpen /\ ad.editingId # NoId
  /\ EditedCopy # Absent
  /\ ad.formData = EditForm(EditedCopy)

RoundTripFields == {"treatmentType", "patientName", "date", "time"}

\* a submit of the untouched edit form issues one updateAppointment on the
\* appointment's id, with the six form fields and the appointment's own
\* values, and no create
RoundTripIssued ==
  (AdSubmit /\ FormUntouched) =>
    /\ lastEvent'.issued /\ lastEvent'.editing
    /\ usedIds' = usedIds /\ createCalls' = createCalls
    /\ Len(queue'["admin"]) = Len(queue["admin"]) + 1
    /\ LET w == queue'["admin"][Len(queue'["admin"])]
       IN  /\ w.op = "updateDoc" /\ w.id = EditedCopy.id
           /\ DOMAIN w.data = PayloadFields
           /\ \A f \in RoundTripFields : w.data[f] = EditedCopy[f]

\* the store applies the write of the untouched edit form just submitted
RoundTripApplied ==
  /\ FormUntouched /\ lastEvent.op = "handleSubmit" /\ lastEvent.issued
  /\ Len(queue["admin"]) = 1
  /\ UpdateApplied("admin")

\* C29 as stated: the untouched edit form issues exactly one update on the
\* appointment's id and no create, and once the store has applied it the
\* stored treatmentType, patientName, date and time are what they were
\* before, and status, messages, createdAt and cancellationReason are not
\* written.
C29_AsStated ==
  /\ [][RoundTripIssued]_vars
  /\ [][RoundTripApplied =>
          \A f \in RoundTripFields :
             store'[ad.editingId][f] = store[ad.editingId][f]]_vars

\* C29 amended: the untouched edit form issues exactly one update on the
\* appointment's id and no create; once the store has applied it the stored
\* treatmentType, patientName, date and time are those of the dashboard's
\* copy the form was filled from, hence unchanged when the stored record
\* still had them; status, messages, createdAt and cancellationReason are
\* as they were, present or missing.
C29_EditRoundTrip ==
  /\ [][RoundTripIssued]_vars
  /\ [][RoundTripApplied =>
          LET id == ad.editingId
          IN  /\ \A f \in RoundTripFields : store'[id][f] = EditedCopy[f]
              /\ (\A f \in RoundTripFields : store[id][f] = EditedCopy[f])
                   => \A f \in RoundTripFields : store'[id][f] = store[id][f]
              /\ \A k \in {"status", "messages", "createdAt", "cancellationReason"} :
                   /\ k \in DOMAIN store'[id] <=> k \in DOMAIN store[id]
                   /\ k \in DOMAIN store[id] => store'[id][k] = store[id][k]]_vars

\* the edit form of an appointment with a custom treatment has been
\* submitted untouched, and its one write is on the way to the store
C29_Witness ==
  /\ lastEvent.op = "handleSubmit" /\ lastEvent.issued /\ lastEvent.editing
  /\ FormUntouched
  /\ EditedCopy.treatmentType = <<120>> /\ ad.formData.treatmentType = manual
  /\ Len(queue["admin"]) = 1 /\ Head(queue["admin"]).id = ad.editingId
  /\ Exists(store, ad.editingId)
  /\ store[ad.editingId].treatmentType = <<120>>

\* ------------------------------------------------------------ delivered ids
NextIds ==
  \/ NextLife
  \/ \E id \in usedIds : GetAppointmentById(id, "ok")

\* an appointment is created, edited, cancelled, written to and deleted, and
\* read by the dashboard's subscription, the patient's listener and the fetch
SpecIds == InitLife /\ [][NextIds]_vars

\* record a, as delivered, is the stored document of id with that id
DeliveredAs(a, id) ==
  /\ a # Absent /\ a.id = id
  /\ Exists(store, id)
  /\ DOMAIN a = DOMAIN store[id] \cup {"id"}
  /\ \A k \in DOMAIN store[id] : a[k] = store[id][k]

\* C30: no stored document and no create or update on its way to the store
\* has a field named id; the list the collection subscription delivers has
\* one record per stored document, each with the document's id, so no id
\* twice; the record the PatientView listener delivers has the id listened
\* on, and keeps it from one delivery to the next; the record
\* getAppointmentById returns has the id asked for.
C30_DeliveredIdIsDocId ==
  /\ [](\A id \in DOMAIN store : "id" \notin DOMAIN store[id])
  /\ [](\A c \in Clients : \A i \in 1..Len(queue[c]) :
          queue[c][i].op \in {"addDoc", "updateDoc"} =>
             "id" \notin DOMAIN queue[c][i].data)
  /\ [](lastEvent.op = "AdSnapshot" =>
          /\ Len(ad.appointments) = Cardinality(DOMAIN store)
          /\ \A i \in 1..Len(ad.appointments) :
                DeliveredAs(ad.appointments[i], ad.appointments[i].id)
          /\ \A i, j \in 1..Len(ad.appointments) :
                i # j => ad.appointments[i].id # ad.appointments[j].id)
  /\ [](lastEvent.op = "PvSnapshot" /\ lastEvent.exists =>
          DeliveredAs(pv.appointment, pv.appointmentId))
  /\ [](lastEvent.op = "getAppointmentById" /\ lastEvent.value # Absent =>
          DeliveredAs(lastEvent.value, lastEvent.id))
  /\ [][PvShown /\ PvShown' /\ pv'.appointmentId = pv.appointmentId
          /\ pv.appointment.id = pv.appointmentId
        => pv'.appointment.id = pv.appointment.id]_vars

\* an appointment the admin created and the patient cancelled is fetched by
\* its id while the dashboard and the PatientView hold it
C30_Witness ==
  /\ lastEvent.op = "getAppointmentById" /\ lastEvent.value # Absent
  /\ lastEvent.id \in DOMAIN createCalls
  /\ lastEvent.value.status = CANCELLED
  /\ PvShown /\ pv.appointment.id = lastEvent.id
  /\ Len(ad.appointments) = 1 /\ ad.appointments[1].id = lastEvent.id

====
